---- MODULE Spec2Model ----
(***************************************************************************)
(* DotPay backend: the M-Pesa payment orchestration engine.                *)
(*                                                                         *)
(* The model is a set of concurrently running request handlers (initiate,  *)
(* webhook, onramp credit settlement, reconcile) over the MongoDB          *)
(* collections of transactions and webhook events.  A handler loads a      *)
(* document, mutates its own in-memory copy and writes it back with        *)
(* save(), which sends the paths the handler modified ($set) and the       *)
(* history entries it pushed ($push); the database enforces the unique     *)
(* indexes.  Every await of the source is a point where another handler    *)
(* may run: one action is the completion of the awaited operation and the  *)
(* synchronous code that follows it up to the next await.                  *)
(***************************************************************************)
EXTENDS Integers, Sequences, FiniteSets, TLC

\* ---------------------------------------------------------------- bounds
MaxTx    == 2     \* transactions that can be created
MaxKeys  == 1     \* distinct Idempotency-Key values
MaxHash  == 1     \* distinct on-chain funding transaction hashes
MaxProc  == 2     \* handlers running at the same time
MaxCalls == 3     \* requests served in one behaviour
MaxUsers == 2     \* users (admission model)
MaxQuotes == 2    \* transactions the admission model can create

TxIds  == 1..MaxTx
Keys   == 1..MaxKeys
Hashes == 1..MaxHash
Procs  == 1..MaxProc

NoKey  == 0       \* idempotencyKey: undefined
NoHash == 0       \* onchain.txHash: null
NoTx   == 0       \* findOne() returned null / no quoteId in the body

\* ------------------------------------------------------- the state machine
FLOW_TYPES == {"onramp", "offramp", "paybill", "buygoods"}

\* The flows of the requests: the buygoods handler is the paybill handler
\* with a till number for the paybill number, so paybill stands for both.
RequestFlows == {"onramp", "offramp", "paybill"}

FUNDED_FLOWS == {"offramp", "paybill", "buygoods"}

STATUSES ==
  {"created", "quoted", "awaiting_user_authorization", "awaiting_onchain_funding",
   "mpesa_submitted", "mpesa_processing", "succeeded", "failed",
   "refund_pending", "refunded"}

ALLOWED_TRANSITIONS ==
  [created                     |-> {"quoted", "awaiting_user_authorization", "failed"},
   quoted                      |-> {"awaiting_user_authorization", "mpesa_submitted", "failed"},
   awaiting_user_authorization |-> {"awaiting_onchain_funding", "mpesa_submitted", "failed"},
   awaiting_onchain_funding    |-> {"mpesa_submitted", "failed"},
   mpesa_submitted             |-> {"mpesa_processing", "succeeded", "failed"},
   mpesa_processing            |-> {"succeeded", "failed"},
   succeeded                   |-> {},
   failed                      |-> {"refund_pending", "refunded"},
   refund_pending              |-> {"refunded", "failed"},
   refunded                    |-> {}]

\* a canTransition that admits every pair of known statuses
canTransition_anyKnown(from, to) ==
  from \in STATUSES /\ to \in STATUSES

canTransition(from, to) ==
  IF from \notin STATUSES \/ to \notin STATUSES THEN FALSE
  ELSE IF from = to THEN TRUE
  ELSE to \in ALLOWED_TRANSITIONS[from]

\* assertTransition throws on an illegal transition (the result is the
\* StateError marker), is a no-op on a same-state call, and on a real
\* transition sets the status and pushes one history entry
\* <<from, to, source>>.
StateError ==
  [flow |-> "none", status |-> "StateError", key |-> NoKey, hash |-> NoHash,
   ver |-> "none", verErr |-> FALSE, resp |-> FALSE, cb |-> "none",
   rstatus |-> "none", rtx |-> "none", history |-> << >>]

\* an assertTransition that records a same-state call in the history
assertTransition_pushAlways(doc, to, source) ==
  IF ~canTransition(doc.status, to) THEN StateError
  ELSE [doc EXCEPT !.status = to,
                   !.history = Append(@, <<doc.status, to, source>>)]

assertTransition(doc, to, source) ==
  IF ~canTransition(doc.status, to) THEN StateError
  ELSE IF doc.status # to
    THEN [doc EXCEPT !.status = to,
                     !.history = Append(@, <<doc.status, to, source>>)]
    ELSE doc

\* number of history entries assertTransition pushes (0 for a same-state call)
pushes(doc, to) == IF doc.status # to THEN 1 ELSE 0

\* ----------------------------------------------------------- configuration
\* The configuration a deployment runs with (mpesaConfig), fixed while it
\* runs:
\*   autoRefund    : refunds.autoRefund
\*   env           : "sandbox" or "production"
\*   treasury      : hasTreasuryConfig(): rpcUrl, privateKey and usdcContract set
\*   refundEnabled : treasury.refundEnabled
VARIABLE config

Configs ==
  [autoRefund : BOOLEAN, env : {"sandbox", "production"},
   treasury : BOOLEAN, refundEnabled : BOOLEAN]

\* the deployment of the payment model: the defaults, with the treasury that
\* on-chain funding verification requires
Deployment ==
  [autoRefund |-> TRUE, env |-> "sandbox", treasury |-> TRUE, refundEnabled |-> TRUE]

autoRefund == config.autoRefund

\* ----------------------------------------------------- admission state
\* The admission checks of the initiate handlers (PIN, quote binding,
\* signature) and the limits of POST /quotes are modelled on their own
\* state, with the data they depend on: the owner, amount, creation time
\* and expiry of each transaction, and the clock.  The payment model above
\* follows one user's unexpired quotes and leaves this state alone.
VARIABLES
  ledger,     \* QuoteIds -> transaction (user, flow, quote, createdAt, status)
  now,        \* Date.now(), in ms
  sent,       \* transactions submitted to the provider
  call        \* the last request served and its outcome

admission == <<ledger, now, sent, call>>

Users == 1..MaxUsers

QuoteIds == 1..MaxQuotes

NoQuote == [user |-> 0, flow |-> "none", amountKes |-> 0, createdAt |-> 0,
            expiresAt |-> 0, status |-> "none"]

NoCall == [op |-> "none", user |-> 0, flow |-> "none", quoteId |-> 0, pin |-> 0,
           signer |-> 0, signedTx |-> 0, out |-> "none", q |-> 0]

AdmissionIdle ==
  /\ ledger = [q \in QuoteIds |-> NoQuote]
  /\ now = 0
  /\ sent = {}
  /\ call = NoCall

\* ------------------------------------------------------- library state
\* The middlewares and the pure functions of the services are followed one
\* call at a time: args is the request or the arguments of the call being
\* made, result the response or the value returned ("pending" until then).
\* oauth is the module state of authTokenCache.js with its callers.
VARIABLES args, result, oauth

library == <<args, result, oauth>>

NoArg == [fn |-> "none"]

Pending == [kind |-> "pending"]

\* cachedToken = null, cachedExpiresAt = 0, nobody calling
OAuthIdle ==
  [cachedToken |-> "null", cachedExpiresAt |-> 0,
   pc |-> [c \in 1..MaxProc |-> "idle"],
   got |-> [c \in 1..MaxProc |-> "none"],
   requests |-> 0]

LibraryIdle ==
  /\ args = NoArg
  /\ result = Pending
  /\ oauth = OAuthIdle

\* settlement.requireOnchainFunding at its default (true)

requireOnchainFunding == TRUE

requiresOnchainFunding(flowType) ==
  requireOnchainFunding /\ flowType \in FUNDED_FLOWS

\* ------------------------------------------------------------- documents
\* The fields of a transaction document that the handlers read or write.
\*   resp : daraja.rawResponse, the synchronous response, is recorded
\*   cb   : daraja.resultCodeRaw / resultDesc of the last callback merged
\*   verErr : onchain.verificationError is set
\*   rtx  : refund.txHash: "none", "0x" (the hash of an on-chain transfer) or
\*          "RF_" (the reference of a simulated refund)
NewTransaction(flowType, key) ==
  [flow    |-> flowType,
   status  |-> "quoted",
   key     |-> key,
   hash    |-> NoHash,
   ver     |-> IF requiresOnchainFunding(flowType) THEN "pending" ELSE "not_required",
   verErr  |-> FALSE,
   resp    |-> FALSE,
   cb      |-> "none",
   rstatus |-> "none",
   rtx     |-> "none",
   history |-> << <<"created", "quoted", "api">> >>]

NoDoc == [flow |-> "none", status |-> "none", key |-> NoKey, hash |-> NoHash,
          ver |-> "none", verErr |-> FALSE, resp |-> FALSE, cb |-> "none",
          rstatus |-> "none", rtx |-> "none", history |-> << >>]

ONCHAIN == {"hash", "ver", "verErr"}

DARAJA == {"resp", "cb"}

REFUND == {"rstatus", "rtx"}

VARIABLES
  txs,        \* the transactions collection: TxIds -> document (NoDoc: absent)
  events,     \* the events collection: eventKey -> number of rows
  proc,       \* the running handlers
  calls,      \* handler invocations started so far
  subs,       \* provider submissions (STK/B2C/B2B requests received), per tx
  keySubs,    \* provider submissions per <<flow, Idempotency-Key>>
  backed,     \* per funding hash, the transactions submitted on its strength
  answered,   \* per <<flow, Idempotency-Key>>, the transactions of the 200 answers
  refunds,    \* refund transfers executed, per transaction
  credits,    \* onramp credit transfers executed, per transaction
  serverErrors \* webhook requests answered by the application's error handler

vars == <<txs, events, proc, calls, subs, keySubs, backed, answered, refunds, credits,
          serverErrors, config, ledger, now, sent, call, args, result, oauth>>

Exists(t) == txs[t] # NoDoc

\* ---------------------------------------------------------------- save()
\* What Document.save() writes: the modified paths and the pushed history
\* entries, applied to the stored document.
LastN(seq, n) == SubSeq(seq, Len(seq) - n + 1, Len(seq))

Written(stored, doc, dirty, npush) ==
  [flow    |-> stored.flow,
   status  |-> IF "status"  \in dirty THEN doc.status  ELSE stored.status,
   key     |-> IF "key"     \in dirty THEN doc.key     ELSE stored.key,
   hash    |-> IF "hash"    \in dirty THEN doc.hash    ELSE stored.hash,
   ver     |-> IF "ver"     \in dirty THEN doc.ver     ELSE stored.ver,
   verErr  |-> IF "verErr"  \in dirty THEN doc.verErr  ELSE stored.verErr,
   resp    |-> IF "resp"    \in dirty THEN doc.resp    ELSE stored.resp,
   cb      |-> IF "cb"      \in dirty THEN doc.cb      ELSE stored.cb,
   rstatus |-> IF "rstatus" \in dirty THEN doc.rstatus ELSE stored.rstatus,
   rtx     |-> IF "rtx"     \in dirty THEN doc.rtx     ELSE stored.rtx,
   history |-> stored.history \o LastN(doc.history, npush)]

\* The unique indexes of the transactions collection: onchain.txHash (when a
\* string) and (userAddress, flowType, idempotencyKey) (when a string).
DuplicateKey(t, new) ==
  \E u \in TxIds :
    /\ u # t
    /\ Exists(u)
    /\ \/ new.hash # NoHash /\ txs[u].hash = new.hash
       \/ new.key # NoKey /\ txs[u].key = new.key /\ txs[u].flow = new.flow

\* ------------------------------------------------------------- handlers
\* A handler: its kind, the await it is suspended at (pc), its request
\* inputs, its loaded document with the modified paths (dirty) and the number
\* of history entries pushed and not yet saved (npush).
\*   nh       : history entries this handling has persisted so far
\*   inserted : the webhook handling inserted its event row
\*   verified : verifyUsdcFunding succeeded in this initiate call
\*   accepted : the synchronous provider response was classified as accepted
\*   sent     : this initiate call sent a request to the provider
\*   rok, rcode : response.ok and ResponseCode of the provider's answer
\*   posted   : the provider had received a submission of the transaction
\*              when this callback arrived
\*   acked    : the acknowledgement of the callback has been sent (the
\*              settlement scheduled by the handler is still to run)
\*   summary  : the counts a reconcile run returns
Idle ==
  [kind |-> "none", pc |-> "idle", t |-> NoTx, doc |-> NoDoc, dirty |-> {},
   npush |-> 0, flow |-> "none", key |-> NoKey, quote |-> NoTx, hash |-> NoHash,
   wkind |-> "none", code |-> "none", ret |-> "none", queue |-> << >>,
   nh |-> 0, inserted |-> FALSE, verified |-> FALSE,
   accepted |-> FALSE, rok |-> FALSE, rcode |-> "none", sent |-> FALSE,
   posted |-> FALSE, acked |-> FALSE,
   summary |-> [scanned |-> 0, markedFailed |-> 0, refunded |-> 0]]

\* a request is served by the first free handler slot
Free(p) ==
  /\ proc[p].pc = "idle"
  /\ \A q \in Procs : q < p => proc[q].pc # "idle"
  /\ calls < MaxCalls

\* the handler answers with `out`: its in-memory state is dropped with the
\* request
Done(r, out) == Idle

\* a throw of assertTransition reaches the catch of the handler, which
\* answers (400, 500 or the acknowledgement) without saving
Thrown(r) == r.doc.status = "StateError"

Caught(r) == IF Thrown(r) THEN Done(r, "error") ELSE r

\* tx.save(): TRUE when the write is applied, FALSE when it throws E11000
SaveApplies(p) ==
  LET r == proc[p] IN
  ~DuplicateKey(r.t, Written(txs[r.t], r.doc, r.dirty, r.npush))

Saved(p) ==
  LET r == proc[p] IN Written(txs[r.t], r.doc, r.dirty, r.npush)

AfterSave(r) ==
  [r EXCEPT !.dirty = {}, !.npush = 0, !.nh = @ + r.npush, !.rok = FALSE, !.rcode = "none"]

\* a path is marked modified when the assigned value differs
Mark(doc, field, value) == IF doc[field] # value THEN {field} ELSE {}

FreeTxIds == {t \in TxIds : ~Exists(t)}

NextTxId == CHOOSE t \in FreeTxIds : \A u \in FreeTxIds : t <= u

\* --------------------------------------------------------- POST /quotes
CreateQuote(flowType) ==
  /\ FreeTxIds # {}
  /\ calls < MaxCalls
  /\ calls' = calls + 1
  /\ txs' = [txs EXCEPT ![NextTxId] = NewTransaction(flowType, NoKey)]
  /\ UNCHANGED <<events, proc, subs, keySubs, backed, answered, refunds, credits>>
  /\ UNCHANGED <<serverErrors, config, admission, library>>

\* -------------------------------------------------- refund service entry
\* scheduleAutoRefund up to its first await (executeRefund): the guards, the
\* transition to refund_pending and refund.status = pending.  The result is
\* the handler record suspended in the refund, or `otherwise` when the
\* function returns at once.
\* a scheduleAutoRefund without the check of the flow
scheduleAutoRefund_anyFlow(r, ret, otherwise) ==
  IF ~autoRefund THEN otherwise
  ELSE IF r.doc.status # "failed" THEN otherwise
  ELSE Caught([r EXCEPT !.doc = [assertTransition(r.doc, "refund_pending", "refund_service")
                                   EXCEPT !.rstatus = "pending"],
                        !.dirty = @ \cup {"status"} \cup REFUND,
                        !.npush = @ + 1,
                        !.pc = "r_exec",
                        !.ret = ret])

scheduleAutoRefund(r, ret, otherwise) ==
  IF ~autoRefund THEN otherwise
  ELSE IF r.doc.flow \notin FUNDED_FLOWS THEN otherwise
  ELSE IF r.doc.status # "failed" THEN otherwise
  ELSE Caught([r EXCEPT !.doc = [assertTransition(r.doc, "refund_pending", "refund_service")
                                   EXCEPT !.rstatus = "pending"],
                        !.dirty = @ \cup {"status"} \cup REFUND,
                        !.npush = @ + 1,
                        !.pc = "r_exec",
                        !.ret = ret])

\* ------------------------------------------------- the initiate handlers
\* POST /onramp/stk/initiate, /offramp/initiate, /merchant/paybill/initiate
\* and /merchant/buygoods/initiate share one shape; the funded flows add the
\* PIN and signature checks and ensureFundingVerified.

\* The handler up to its first await: the lookup of (userAddress, flowType,
\* idempotencyKey).  A hit is answered with the stored transaction.
InitiateExisting(p, flowType, key, quote, hash) ==
  /\ Free(p)
  /\ flowType = "onramp" => hash = NoHash
  /\ calls' = calls + 1
  /\ LET hit == {t \in TxIds : Exists(t) /\ txs[t].flow = flowType /\ txs[t].key = key}
         r   == [Idle EXCEPT !.kind = "initiate", !.flow = flowType, !.key = key,
                             !.quote = quote, !.hash = hash]
     IN IF hit # {}
          THEN LET t == CHOOSE u \in hit : TRUE IN
               /\ proc' = [proc EXCEPT ![p] =
                             Done([r EXCEPT !.t = t, !.doc = txs[t]], "idempotent")]
               /\ answered' = [answered EXCEPT ![<<flowType, key>>] = @ \cup {t}]
          ELSE /\ proc' = [proc EXCEPT ![p] = [r EXCEPT !.pc = "i_fetch"]]
               /\ UNCHANGED answered
  /\ UNCHANGED <<txs, events, subs, keySubs, backed, refunds, credits>>
  /\ UNCHANGED <<serverErrors, config, admission, library>>

\* The handler's synchronous code between fetchOrCreateQuoteTransaction and
\* the next await, on the loaded or created document d of transaction t.
InitiateBind(r, t, d, sigOk) ==
  LET d1 == [d EXCEPT !.key = r.key]
      m1 == Mark(d, "key", r.key)
      r1 == [r EXCEPT !.t = t, !.doc = d1, !.dirty = m1]
  IN
  IF r.flow = "onramp" THEN
    IF ~canTransition(d1.status, "mpesa_submitted") THEN Done(r1, "error")
    ELSE [r1 EXCEPT !.doc = assertTransition(d1, "mpesa_submitted", "api"),
                    !.dirty = m1 \cup Mark(d1, "status", "mpesa_submitted"),
                    !.npush = pushes(d1, "mpesa_submitted"),
                    !.pc = "i_submit"]
  ELSE
    \* applyFundingDefaults: verificationStatus stays verified, else pending
    LET v  == IF ~requiresOnchainFunding(r.flow) THEN "not_required"
              ELSE IF d1.ver = "verified" THEN "verified" ELSE "pending"
        d2 == [d1 EXCEPT !.ver = v]
        m2 == m1 \cup Mark(d1, "ver", v)
        r2 == [r1 EXCEPT !.doc = d2, !.dirty = m2]
        \* ensureFundingVerified: body.onchainTxHash || tx.onchain.txHash
        h  == IF r.hash # NoHash THEN r.hash ELSE d2.hash
    IN
    IF ~sigOk THEN Done(r2, "error")
    ELSE IF ~canTransition(d2.status, "awaiting_user_authorization") THEN Done(r2, "error")
    ELSE IF ~requiresOnchainFunding(r.flow)
      \* ensureFundingVerified returns at once: onchain.required is false
      THEN LET d3 == assertTransition(d2, "awaiting_user_authorization", "api")
               d4 == assertTransition([d3 EXCEPT !.ver = "not_required"],
                                      "mpesa_submitted", "api")
           IN Caught([r2 EXCEPT !.doc = d4,
                                !.dirty = m2 \cup {"ver", "status"},
                                !.npush = Len(d4.history) - Len(d2.history),
                                !.pc = "i_submit"])
    ELSE IF h = NoHash
      THEN Done([r2 EXCEPT !.doc = assertTransition(d2, "awaiting_user_authorization", "api")],
                "error")
    ELSE [r2 EXCEPT !.doc = assertTransition(d2, "awaiting_user_authorization", "api"),
                    !.dirty = m2 \cup Mark(d2, "status", "awaiting_user_authorization"),
                    !.npush = pushes(d2, "awaiting_user_authorization"),
                    !.hash = h,
                    !.pc = "i_dup"]

\* fetchOrCreateQuoteTransaction: bind the transaction of the quoteId, or
\* create one carrying the idempotency key (create throws on a duplicate key).
\* pinOk, sigOk: the outcomes of requireUserPinVerified and
\* verifyAuthorizationSignature (funded flows only).
InitiateFetchWith(p, pinOk, sigOk) ==
  /\ proc[p].pc = "i_fetch"
  /\ LET r == proc[p] IN
     /\ r.flow = "onramp" => pinOk /\ sigOk
     /\ ~pinOk => sigOk
     /\ IF ~pinOk THEN
          /\ proc' = [proc EXCEPT ![p] = Done(r, "error")]
          /\ UNCHANGED txs
        ELSE IF r.quote # NoTx THEN
          /\ UNCHANGED txs
          /\ proc' = [proc EXCEPT ![p] =
               IF ~Exists(r.quote) \/ txs[r.quote].flow # r.flow
                 THEN Done(r, "error")
                 ELSE InitiateBind(r, r.quote, txs[r.quote], sigOk)]
        ELSE
          /\ FreeTxIds # {}
          /\ LET d == NewTransaction(r.flow, r.key) IN
             IF DuplicateKey(NextTxId, d)
               THEN /\ proc' = [proc EXCEPT ![p] = Done(r, "error")]
                    /\ UNCHANGED txs
               ELSE /\ txs' = [txs EXCEPT ![NextTxId] = d]
                    /\ proc' = [proc EXCEPT ![p] = InitiateBind(r, NextTxId, d, sigOk)]
  /\ UNCHANGED <<events, calls, subs, keySubs, backed, answered, refunds, credits>>
  /\ UNCHANGED <<serverErrors, config, admission, library>>

InitiateFetch(p) ==
  \E pinOk \in BOOLEAN, sigOk \in BOOLEAN : InitiateFetchWith(p, pinOk, sigOk)

\* ensureFundingVerified, after the lookup of another transaction carrying
\* the same onchain.txHash.
InitiateDuplicate(p) ==
  /\ proc[p].pc = "i_dup"
  /\ LET r == proc[p]
         duplicate == \E u \in TxIds : u # r.t /\ Exists(u) /\ txs[u].hash = r.hash
     IN proc' = [proc EXCEPT ![p] =
          IF duplicate THEN Done(r, "error")
          ELSE IF r.doc.status = "awaiting_user_authorization"
            THEN Caught([r EXCEPT !.doc = assertTransition(r.doc, "awaiting_onchain_funding", "api"),
                                  !.dirty = @ \cup {"status"},
                                  !.npush = @ + 1,
                                  !.pc = "i_verify"])
            ELSE [r EXCEPT !.pc = "i_verify"]]
  /\ UNCHANGED <<txs, events, calls, subs, keySubs, backed, answered, refunds, credits>>
  /\ UNCHANGED <<serverErrors, config, admission, library>>

\* verifyUsdcFunding returns (ok) or throws; on a throw the failure is
\* recorded on the document and saved before the error is rethrown.
InitiateVerifyWith(p, ok) ==
  /\ proc[p].pc = "i_verify"
  /\ LET r == proc[p] IN
     proc' = [proc EXCEPT ![p] =
       IF ok
         THEN Caught([r EXCEPT !.doc = assertTransition(
                                  [r.doc EXCEPT !.hash = r.hash, !.ver = "verified",
                                                !.verErr = FALSE],
                                  "mpesa_submitted", "api"),
                        !.dirty = @ \cup ONCHAIN \cup {"status"},
                        !.npush = @ + 1,
                        !.verified = TRUE,
                        !.pc = "i_submit"])
         ELSE [r EXCEPT !.doc = [r.doc EXCEPT !.hash = r.hash, !.ver = "failed",
                                              !.verErr = TRUE],
                        !.dirty = @ \cup ONCHAIN,
                        !.pc = "i_failsave"]]
  /\ UNCHANGED <<txs, events, calls, subs, keySubs, backed, answered, refunds, credits>>
  /\ UNCHANGED <<serverErrors, config, admission, library>>

InitiateVerify(p) == \E ok \in BOOLEAN : InitiateVerifyWith(p, ok)

InitiateFailSave(p) ==
  /\ proc[p].pc = "i_failsave"
  /\ IF SaveApplies(p)
       THEN /\ txs' = [txs EXCEPT ![proc[p].t] = Saved(p)]
            /\ proc' = [proc EXCEPT ![p] = Done(AfterSave(proc[p]), "error")]
       ELSE /\ UNCHANGED txs
            /\ proc' = [proc EXCEPT ![p] = Done(proc[p], "error")]
  /\ UNCHANGED <<events, calls, subs, keySubs, backed, answered, refunds, credits>>
  /\ UNCHANGED <<serverErrors, config, admission, library>>

\* The synchronous provider response: `ok` is response.ok (HTTP 2xx) and
\* ResponseCode the field of the JSON body: the string "0" or "1", the
\* number 0, or absent.
ResponseCodes == {"string 0", "string 1", "number 0", "absent"}

\* String(darajaRes.data?.ResponseCode || "")
ResponseCodeString(code) ==
  CASE code = "string 0" -> "0"
    [] code = "string 1" -> "1"
    [] OTHER -> ""

Accepted(ok, code) == ok /\ ResponseCodeString(code) = "0"

\* initiateStkPush / initiateB2C / initiateB2B: the call throws before any
\* request reaches the provider (getAccessToken fails, fetch fails), or the
\* provider answers.
InitiateSubmit(p) ==
  /\ proc[p].pc = "i_submit"
  /\ LET r == proc[p] IN
     \/ /\ proc' = [proc EXCEPT ![p] = Done(r, "error")]
        /\ UNCHANGED <<subs, keySubs, backed>>
     \/ \E ok \in BOOLEAN, code \in ResponseCodes :
          LET to == IF Accepted(ok, code) THEN "mpesa_processing" ELSE "failed"
              d  == [r.doc EXCEPT !.resp = TRUE]
          IN
          /\ subs' = [subs EXCEPT ![r.t] = @ + 1]
          /\ keySubs' = [keySubs EXCEPT ![<<r.flow, r.key>>] = @ + 1]
          /\ backed' = IF r.verified
                         THEN [backed EXCEPT ![r.hash] = @ \cup {r.t}]
                         ELSE backed
          /\ proc' = [proc EXCEPT ![p] =
               Caught([r EXCEPT !.doc = assertTransition(d, to, "daraja"),
                                !.dirty = @ \cup DARAJA \cup {"status"},
                                !.npush = @ + 1,
                                !.accepted = Accepted(ok, code),
                                !.rok = ok,
                                !.rcode = code,
                                !.sent = TRUE,
                                !.pc = "i_save"])]
  /\ UNCHANGED <<txs, events, calls, answered, refunds, credits>>
  /\ UNCHANGED <<serverErrors, config, admission, library>>

\* tx.save() after the response; a rejected funded-flow transaction goes on
\* into scheduleAutoRefund.
InitiateSave(p) ==
  /\ proc[p].pc = "i_save"
  /\ IF SaveApplies(p)
       THEN LET r == AfterSave(proc[p])
                n == IF r.accepted \/ r.flow = "onramp"
                       THEN Done(r, "ok")
                       ELSE scheduleAutoRefund(r, "initiate", Done(r, "ok"))
            IN
            /\ txs' = [txs EXCEPT ![r.t] = Saved(p)]
            /\ proc' = [proc EXCEPT ![p] = n]
            /\ answered' = IF n.pc = "idle"
                             THEN [answered EXCEPT ![<<r.flow, r.key>>] = @ \cup {r.t}]
                             ELSE answered
       ELSE /\ UNCHANGED <<txs, answered>>
            /\ proc' = [proc EXCEPT ![p] = Done(proc[p], "error")]
  /\ UNCHANGED <<events, calls, subs, keySubs, backed, refunds, credits>>
  /\ UNCHANGED <<serverErrors, config, admission, library>>

\* ------------------------------------------------------ refund service
\* executeRefund: the on-chain transfer when the treasury is configured and
\* refunds are enabled (transferOk: the transfer and its receipt succeed),
\* a simulated refund in sandbox, an error otherwise.  The result is the
\* mode, or "throw".
\* an executeRefund without the sandbox fallback
executeRefund_noFallback(transferOk) ==
  IF config.treasury /\ config.refundEnabled /\ transferOk THEN "onchain" ELSE "throw"

executeRefund(transferOk) ==
  IF config.treasury /\ config.refundEnabled
    THEN IF transferOk THEN "onchain" ELSE "throw"
  ELSE IF config.env = "sandbox" THEN "simulated"
  ELSE "throw"

\* executed.txHash: tx.hash of the transfer, or pseudoRefundReference()
refundTxHash(mode) == IF mode = "onchain" THEN "0x" ELSE "RF_"

\* executeRefund resolves (an on-chain or simulated transfer was made) or
\* throws; scheduleAutoRefund records the outcome on the document.
RefundExecute(p) ==
  /\ proc[p].pc = "r_exec"
  /\ \E transferOk \in BOOLEAN :
       LET r    == proc[p]
           mode == executeRefund(transferOk)
           ok   == mode # "throw"
       IN
       /\ refunds' = [refunds EXCEPT ![r.t] = IF ok THEN @ + 1 ELSE @]
       /\ proc' = [proc EXCEPT ![p] =
            Caught(IF ok
              THEN [r EXCEPT !.doc = assertTransition(
                                       [r.doc EXCEPT !.rstatus = "completed",
                                                     !.rtx = refundTxHash(mode)],
                                       "refunded", "refund_service"),
                             !.npush = @ + 1,
                             !.pc = "r_save"]
              ELSE [r EXCEPT !.doc = assertTransition(
                                       [r.doc EXCEPT !.rstatus = "failed"],
                                       "failed", "refund_service"),
                             !.npush = @ + 1,
                             !.pc = "r_save"])]
  /\ UNCHANGED <<txs, events, calls, subs, keySubs, backed, answered, credits>>
  /\ UNCHANGED <<serverErrors, config, admission, library>>

\* ---------------------------------------------------------- webhooks
WKINDS == {"stk", "b2c_result", "b2c_timeout", "b2b_result", "b2b_timeout"}

TIMEOUTS == {"b2c_timeout", "b2b_timeout"}

\* ResultCode of the callback body, as String(value).trim() reads it: "0",
\* "00" (another spelling of the number zero), "1", or absent
ResultCodes == {"0", "00", "1", "absent"}

\* Number(raw): NaN is written -1
asNumber(raw) ==
  CASE raw \in {"0", "00"} -> 0
    [] raw = "1" -> 1
    [] OTHER -> -1

\* parseResultCode: raw, key and isSuccess
parseResultCode(value) ==
  LET raw == IF value = "absent" THEN "null" ELSE value IN
  [raw       |-> raw,
   key       |-> IF raw = "null" THEN "unknown" ELSE raw,
   isSuccess |-> raw = "0" \/ asNumber(raw) = 0]

\* `${kind}:${tx.transactionId}:${providerId}:${parsedCode.key}`; the
\* provider id of a transaction's callbacks is fixed, the timeout keys end
\* with it.  Two callbacks of one kind for one transaction have different
\* keys when their result codes are spelled differently.
eventKey(wkind, t, code) ==
  <<wkind, t, IF wkind \in TIMEOUTS THEN "-" ELSE parseResultCode(code).key>>

EventKeys == WKINDS \X TxIds \X {"0", "00", "1", "unknown", "-"}

\* findTransactionFromWebhook by the tx query parameter
WebhookFind(p, wkind, t, code) ==
  /\ Free(p)
  /\ wkind \in TIMEOUTS => code = "absent"
  /\ calls' = calls + 1
  /\ LET r == [Idle EXCEPT !.kind = "webhook", !.wkind = wkind, !.code = code, !.t = t] IN
     proc' = [proc EXCEPT ![p] =
       IF ~Exists(t) THEN Done(r, "ack")
       ELSE [r EXCEPT !.doc = txs[t], !.posted = subs[t] > 0, !.pc = "w_event"]]
  /\ UNCHANGED <<txs, events, subs, keySubs, backed, answered, refunds, credits>>
  /\ UNCHANGED <<serverErrors, config, admission, library>>

\* router.use of the webhook router: connectDB() rejects (the database cannot
\* be reached), next(err) hands the request to the application's error
\* handler, which answers 500 {success: false}.
WebhookUnavailable(p) ==
  /\ Free(p)
  /\ calls' = calls + 1
  /\ serverErrors' = serverErrors + 1
  /\ UNCHANGED <<txs, events, proc, subs, keySubs, backed, answered, refunds, credits>>
  /\ UNCHANGED <<config, admission, library>>

\* the status the handler asks for, "" when it asks for none
WebhookTarget(r) ==
  IF r.wkind \in TIMEOUTS THEN "failed"
  ELSE IF parseResultCode(r.code).isSuccess
    THEN IF r.wkind = "stk" /\ r.doc.flow = "onramp"
           THEN IF r.doc.status = "mpesa_submitted" THEN "mpesa_processing" ELSE ""
           ELSE "succeeded"
    ELSE "failed"

\* saveEventIfNew: FALSE on the duplicate-key error of the unique eventKey
\* a saveEventIfNew whose insert is not stopped by the unique index
saveEventIfNew_always(k) == TRUE

saveEventIfNew(k) == events[k] = 0

\* saveEventIfNew, then the merge of the callback into tx.daraja and the
\* transition; a throw of assertTransition is caught and acknowledged.
WebhookEvent(p) ==
  /\ proc[p].pc = "w_event"
  /\ LET r  == proc[p]
         k  == eventKey(r.wkind, r.t, r.code)
         to == WebhookTarget(r)
         d  == [r.doc EXCEPT !.cb = IF r.wkind \in TIMEOUTS THEN "Timeout"
                                    ELSE parseResultCode(r.code).raw]
     IN
     IF ~saveEventIfNew(k)
       THEN /\ proc' = [proc EXCEPT ![p] = Done(r, "ack")]
            /\ UNCHANGED events
       ELSE /\ events' = [events EXCEPT ![k] = @ + 1]
            /\ proc' = [proc EXCEPT ![p] =
                 IF to = "" \/ to = d.status
                   THEN [r EXCEPT !.doc = d, !.dirty = DARAJA, !.inserted = TRUE,
                                  !.pc = "w_save"]
                 ELSE IF ~canTransition(d.status, to)
                   THEN Done([r EXCEPT !.doc = d, !.inserted = TRUE], "ack")
                 ELSE [r EXCEPT !.doc = assertTransition(d, to, "webhook"),
                                !.dirty = DARAJA \cup {"status"},
                                !.npush = 1,
                                !.inserted = TRUE,
                                !.pc = "w_save"]]
  /\ UNCHANGED <<txs, calls, subs, keySubs, backed, answered, refunds, credits>>
  /\ UNCHANGED <<serverErrors, config, admission, library>>

\* tx.save(), then: the acknowledgement (success), scheduleAutoRefund (B2C and
\* B2B failure or timeout), or the acknowledgement followed by the credit
\* settlement scheduled with setImmediate (STK success on onramp).
\* a handler that awaits the settlement before it acknowledges
AckThenSettle_awaited(r) ==
  [r EXCEPT !.kind = "settle", !.pc = "s_load", !.acked = FALSE]

\* setImmediate(settle); return callbackAck(res): the acknowledgement is
\* sent, the settlement starts in a later turn of the event loop
AckThenSettle(r) ==
  [r EXCEPT !.kind = "settle", !.pc = "s_load", !.acked = TRUE]

WebhookSave(p) ==
  /\ proc[p].pc = "w_save"
  /\ IF SaveApplies(p)
       THEN LET r == AfterSave(proc[p]) IN
            /\ txs' = [txs EXCEPT ![r.t] = Saved(p)]
            /\ proc' = [proc EXCEPT ![p] =
                 IF r.wkind = "stk"
                   THEN IF parseResultCode(r.code).isSuccess /\ r.doc.flow = "onramp"
                          THEN AckThenSettle(r)
                          ELSE Done(r, "ack")
                 ELSE IF r.wkind \notin TIMEOUTS /\ parseResultCode(r.code).isSuccess
                   THEN Done(r, "ack")
                 ELSE scheduleAutoRefund(r, "webhook", Done(r, "ack"))]
       ELSE /\ UNCHANGED txs
            /\ proc' = [proc EXCEPT ![p] = Done(proc[p], "ack")]
  /\ UNCHANGED <<events, calls, subs, keySubs, backed, answered, refunds, credits>>
  /\ UNCHANGED <<serverErrors, config, admission, library>>

\* ------------------------------------------------ onramp credit settler
\* the hash of the n-th credit transfer of transaction t: a fresh hash
CreditHash(t, n) == MaxHash + t + MaxTx * n

\* The failure of a credit: verificationStatus = failed and the error are
\* set on the document, which is then saved.
\* a failure that also marks the transaction failed
creditFailed_terminal(r) ==
  [r EXCEPT !.doc = [assertTransition(r.doc, "failed", "webhook")
                       EXCEPT !.ver = "failed", !.verErr = TRUE],
            !.dirty = @ \cup {"ver", "verErr", "status"},
            !.npush = @ + pushes(r.doc, "failed"),
            !.pc = "s_save"]

creditFailed(r) ==
  [r EXCEPT !.doc = [r.doc EXCEPT !.ver = "failed", !.verErr = TRUE],
            !.dirty = @ \cup Mark(r.doc, "ver", "failed") \cup Mark(r.doc, "verErr", TRUE),
            !.pc = "s_save"]

\* settleOnrampCredit on the re-loaded document, up to its first save: the
\* one that records a credit that cannot be made (valid: the recipient is
\* an address and the amount is positive), or the one that records
\* verificationStatus = pending
SettleLoad(p) ==
  /\ proc[p].pc = "s_load"
  /\ \E valid \in BOOLEAN :
       LET r == proc[p]
           d == txs[r.t]
       IN proc' = [proc EXCEPT ![p] =
            IF d.ver = "verified" /\ d.hash # NoHash
              THEN Done([r EXCEPT !.doc = d], "already_credited")
            ELSE IF ~valid
              THEN creditFailed([r EXCEPT !.doc = d, !.dirty = {}, !.npush = 0])
              ELSE [r EXCEPT !.doc = [d EXCEPT !.ver = "pending", !.verErr = FALSE],
                             !.dirty = Mark(d, "ver", "pending") \cup Mark(d, "verErr", FALSE),
                             !.npush = 0,
                             !.pc = "s_presave"]]
  /\ UNCHANGED <<txs, events, calls, subs, keySubs, backed, answered, refunds, credits>>
  /\ UNCHANGED <<serverErrors, config, admission, library>>

SettlePreSave(p) ==
  /\ proc[p].pc = "s_presave"
  /\ IF SaveApplies(p)
       THEN /\ txs' = [txs EXCEPT ![proc[p].t] = Saved(p)]
            /\ proc' = [proc EXCEPT ![p] = [AfterSave(proc[p]) EXCEPT !.pc = "s_transfer"]]
       ELSE /\ UNCHANGED txs
            /\ proc' = [proc EXCEPT ![p] = Done(proc[p], "crash")]
  /\ UNCHANGED <<events, calls, subs, keySubs, backed, answered, refunds, credits>>
  /\ UNCHANGED <<serverErrors, config, admission, library>>

\* token.transfer and the wait for its receipt: the credit is made, or the
\* call throws
SettleTransfer(p) ==
  /\ proc[p].pc = "s_transfer"
  /\ \E ok \in BOOLEAN :
       LET r  == proc[p]
           d1 == [r.doc EXCEPT !.hash = CreditHash(r.t, credits[r.t]),
                               !.ver = "verified", !.verErr = FALSE]
           d2 == IF d1.status = "mpesa_submitted"
                   THEN assertTransition(d1, "mpesa_processing", "webhook") ELSE d1
           d3 == IF d2.status = "mpesa_processing"
                   THEN assertTransition(d2, "succeeded", "webhook") ELSE d2
       IN
       /\ credits' = [credits EXCEPT ![r.t] = IF ok THEN @ + 1 ELSE @]
       /\ proc' = [proc EXCEPT ![p] =
            IF ok
              THEN Caught([r EXCEPT !.doc = d3,
                             !.dirty = {"hash", "ver"}
                                         \cup (IF d3.status # r.doc.status THEN {"status"} ELSE {}),
                             !.npush = Len(d3.history) - Len(r.doc.history),
                             !.pc = "s_save"])
              ELSE creditFailed(r)]
  /\ UNCHANGED <<txs, events, calls, subs, keySubs, backed, answered, refunds>>
  /\ UNCHANGED <<serverErrors, config, admission, library>>

SettleSave(p) ==
  /\ proc[p].pc = "s_save"
  /\ IF SaveApplies(p)
       THEN /\ txs' = [txs EXCEPT ![proc[p].t] = Saved(p)]
            /\ proc' = [proc EXCEPT ![p] =
                 Done(AfterSave(proc[p]),
                      IF proc[p].doc.ver = "verified" THEN "credited" ELSE "failed")]
       ELSE /\ UNCHANGED txs
            /\ proc' = [proc EXCEPT ![p] = Done(proc[p], "crash")]
  /\ UNCHANGED <<events, calls, subs, keySubs, backed, answered, refunds, credits>>
  /\ UNCHANGED <<serverErrors, config, admission, library>>

\* ------------------------------------------ POST /internal/reconcile
\* The loop over the candidates loaded by find(): the synchronous code from
\* the head of the queue to the next await.  A candidate that is not in
\* mpesa_processing is skipped; an onramp candidate is marked failed and
\* saved; a funded-flow candidate is marked failed and handed to
\* scheduleAutoRefund.
RECURSIVE ReconcileLoop(_)
ReconcileLoop(r) ==
  IF r.queue = << >> THEN Done(r, "ok")
  ELSE
    LET t  == Head(r.queue)[1]
        d  == Head(r.queue)[2]
        r1 == [r EXCEPT !.t = t, !.doc = d, !.dirty = {}, !.npush = 0,
                        !.queue = Tail(r.queue)]
    IN
    IF d.status # "mpesa_processing" THEN ReconcileLoop(r1)
    ELSE IF ~canTransition(d.status, "failed") THEN Done(r1, "error")
    ELSE
      LET r2 == [r1 EXCEPT !.doc = assertTransition(d, "failed", "reconcile"),
                           !.dirty = {"status"},
                           !.npush = 1,
                           !.summary.markedFailed = @ + 1]
      IN IF autoRefund
           THEN scheduleAutoRefund(r2, "reconcile", [r2 EXCEPT !.pc = "c_save"])
           ELSE [r2 EXCEPT !.pc = "c_save"]

\* the candidates in the order find() returns them
RECURSIVE Candidates(_, _)
Candidates(t, S) ==
  IF t > MaxTx THEN << >>
  ELSE (IF t \in S THEN << <<t, txs[t]>> >> ELSE << >>) \o Candidates(t + 1, S)

\* .limit(100)
ReconcilePageSize == 100

Limit(seq, n) == IF Len(seq) <= n THEN seq ELSE SubSeq(seq, 1, n)

\* find(query): the transaction named by transactionId, or the transactions
\* in mpesa_processing whose updatedAt is at or before the cutoff (old).
ReconcileFind(p, target, old) ==
  /\ Free(p)
  /\ old \subseteq {t \in TxIds : Exists(t) /\ txs[t].status = "mpesa_processing"}
  /\ target # NoTx => old = {}
  /\ calls' = calls + 1
  /\ LET S == IF target # NoTx THEN {t \in {target} : Exists(t)} ELSE old
         candidates == Limit(Candidates(1, S), ReconcilePageSize)
         r == [Idle EXCEPT !.kind = "reconcile", !.quote = target,
                           !.queue = candidates,
                           !.summary.scanned = Len(candidates)]
     IN proc' = [proc EXCEPT ![p] = ReconcileLoop(r)]
  /\ UNCHANGED <<txs, events, subs, keySubs, backed, answered, refunds, credits>>
  /\ UNCHANGED <<serverErrors, config, admission, library>>

\* `if (changed) await tx.save()`, then the next candidate
ReconcileSave(p) ==
  /\ proc[p].pc = "c_save"
  /\ IF SaveApplies(p)
       THEN /\ txs' = [txs EXCEPT ![proc[p].t] = Saved(p)]
            /\ proc' = [proc EXCEPT ![p] = ReconcileLoop(AfterSave(proc[p]))]
       ELSE /\ UNCHANGED txs
            /\ proc' = [proc EXCEPT ![p] = Done(proc[p], "error")]
  /\ UNCHANGED <<events, calls, subs, keySubs, backed, answered, refunds, credits>>
  /\ UNCHANGED <<serverErrors, config, admission, library>>

\* ------------------------------------- scheduleAutoRefund: its save
\* `await transaction.save()` at the end of scheduleAutoRefund, then the
\* caller's continuation; a throw propagates to the caller's catch.
RefundSave(p) ==
  /\ proc[p].pc = "r_save"
  /\ IF SaveApplies(p)
       THEN LET r == AfterSave(proc[p]) IN
            /\ txs' = [txs EXCEPT ![r.t] = Saved(p)]
            /\ proc' = [proc EXCEPT ![p] =
                 CASE r.ret = "initiate"  -> Done(r, "ok")
                   [] r.ret = "webhook"   -> Done(r, "ack")
                   [] r.ret = "caller"    -> [r EXCEPT !.pc = "r_returned"]
                   \* the reconcile loop: `if (tx.status === "refunded")
                   \* summary.refunded += 1`
                   [] OTHER               ->
                        [r EXCEPT !.pc = "c_save",
                                  !.summary.refunded =
                                     IF r.doc.status = "refunded" THEN @ + 1 ELSE @]]
            /\ answered' = IF r.ret = "initiate"
                             THEN [answered EXCEPT ![<<r.flow, r.key>>] = @ \cup {r.t}]
                             ELSE answered
       ELSE /\ UNCHANGED <<txs, answered>>
            /\ proc' = [proc EXCEPT ![p] =
                 Done(proc[p], IF proc[p].ret = "webhook" THEN "ack" ELSE "error")]
  /\ UNCHANGED <<events, calls, subs, keySubs, backed, refunds, credits>>
  /\ UNCHANGED <<serverErrors, config, admission, library>>

\* ------------------------------------------------------ specification
\* empty collections, no request running, the default deployment
PaymentIdle ==
  /\ txs = [t \in TxIds |-> NoDoc]
  /\ events = [k \in EventKeys |-> 0]
  /\ proc = [p \in Procs |-> Idle]
  /\ calls = 0
  /\ subs = [t \in TxIds |-> 0]
  /\ keySubs = [fk \in FLOW_TYPES \X Keys |-> 0]
  /\ backed = [h \in Hashes |-> {}]
  /\ answered = [fk \in FLOW_TYPES \X Keys |-> {}]
  /\ refunds = [t \in TxIds |-> 0]
  /\ credits = [t \in TxIds |-> 0]
  /\ serverErrors = 0
  /\ config = Deployment

Init ==
  /\ PaymentIdle
  /\ AdmissionIdle
  /\ LibraryIdle

Next ==
  \/ \E f \in RequestFlows : CreateQuote(f)
  \/ \E p \in Procs, f \in RequestFlows, k \in Keys, q \in TxIds \cup {NoTx},
        h \in Hashes \cup {NoHash} : InitiateExisting(p, f, k, q, h)
  \/ \E p \in Procs : InitiateFetch(p)
  \/ \E p \in Procs : InitiateDuplicate(p)
  \/ \E p \in Procs : InitiateVerify(p)
  \/ \E p \in Procs : InitiateFailSave(p)
  \/ \E p \in Procs : InitiateSubmit(p)
  \/ \E p \in Procs : InitiateSave(p)
  \/ \E p \in Procs : RefundExecute(p)
  \/ \E p \in Procs : RefundSave(p)
  \/ \E p \in Procs, w \in WKINDS, t \in TxIds, c \in ResultCodes : WebhookFind(p, w, t, c)
  \/ \E p \in Procs : WebhookUnavailable(p)
  \/ \E p \in Procs : WebhookEvent(p)
  \/ \E p \in Procs : WebhookSave(p)
  \/ \E p \in Procs : SettleLoad(p)
  \/ \E p \in Procs : SettlePreSave(p)
  \/ \E p \in Procs : SettleTransfer(p)
  \/ \E p \in Procs : SettleSave(p)
  \/ \E p \in Procs, t \in TxIds \cup {NoTx}, old \in SUBSET TxIds : ReconcileFind(p, t, old)
  \/ \E p \in Procs : ReconcileSave(p)

Spec == Init /\ [][Next]_vars

\* ------------------------------------- scheduleAutoRefund on its own
\* The refund service called on one stored transaction, of any flow, in
\* any status and with or without an earlier failed refund, under every
\* configuration.
RefundDocs ==
  {[NewTransaction(f, NoKey) EXCEPT !.status = st, !.rstatus = rs] :
     f \in FLOW_TYPES, st \in STATUSES, rs \in {"none", "failed"}}

\* `await scheduleAutoRefund(transaction, reason)`: the call, up to the
\* first await of the function or to its return
RefundCall(p) ==
  /\ proc[p].pc = "r_call"
  /\ proc' = [proc EXCEPT ![p] =
       scheduleAutoRefund(proc[p], "caller", [proc[p] EXCEPT !.pc = "r_returned"])]
  /\ UNCHANGED <<txs, events, calls, subs, keySubs, backed, answered, refunds, credits>>
  /\ UNCHANGED <<serverErrors, config, admission, library>>

InitRefund ==
  /\ \E d \in RefundDocs :
       /\ txs = [t \in TxIds |-> IF t = 1 THEN d ELSE NoDoc]
       /\ proc = [p \in Procs |->
            IF p = 1 THEN [Idle EXCEPT !.kind = "refund", !.pc = "r_call", !.t = 1,
                                       !.doc = d, !.flow = d.flow]
                     ELSE Idle]
  /\ events = [k \in EventKeys |-> 0]
  /\ calls = 0
  /\ subs = [t \in TxIds |-> 0]
  /\ keySubs = [fk \in FLOW_TYPES \X Keys |-> 0]
  /\ backed = [h \in Hashes |-> {}]
  /\ answered = [fk \in FLOW_TYPES \X Keys |-> {}]
  /\ refunds = [t \in TxIds |-> 0]
  /\ credits = [t \in TxIds |-> 0]
  /\ serverErrors = 0
  /\ config \in Configs
  /\ AdmissionIdle
  /\ LibraryIdle

NextRefund ==
  \/ \E p \in Procs : RefundCall(p)
  \/ \E p \in Procs : RefundExecute(p)
  \/ \E p \in Procs : RefundSave(p)

SpecRefund == InitRefund /\ [][NextRefund]_vars

\* ------------------------------------------------------------- admission
\* POST /quotes and the initiate handlers up to the provider's answer, on
\* the admission state.  Times are in ms since a local midnight.
maxTxnKes == 150000     \* limits.maxTxnKes
maxDailyKes == 500000   \* limits.maxDailyKes
ttlSeconds == 300       \* quote.ttlSeconds
DayMs == 86400000       \* start.setHours(0, 0, 0, 0): one day

ttlMs == ttlSeconds * 1000

\* the instants of the expiry of a quote made at 0: good at ttlMs, late at
\* ttlMs + 1
ExpiryInstants == {0, ttlMs, ttlMs + 1}

\* the instants of the daily limit: two midnights
DayInstants == {0, DayMs}

\* body.amount: at the per-transaction limit, 1 KES above it, and the
\* daily limit
Amounts == {maxTxnKes, maxTxnKes + 1, maxDailyKes}

\* scryptSync(pin, salt): a key that names the pin and the salt it was
\* derived from
scryptSync(pin, salt) == <<"key", pin, salt>>

\* hashPin with the salt drawn: "scrypt$<salt>$<derived>"
hashPin(pin, salt) == [salt |-> salt, derived |-> scryptSync(pin, salt)]

\* user.pinHash: null
NoPin == [salt |-> 0, derived |-> << >>]

\* user 1 has set the PIN 1, the other users have set none
pinHash(user) == IF user = 1 THEN hashPin(1, 7) ELSE NoPin

\* body.pin
Pins == {1, 2}

\* verifyPin derives the key of the supplied pin with the stored salt and
\* compares it with the stored key
verifyPin(pin, storedHash) ==
  storedHash # NoPin /\ scryptSync(pin, storedHash.salt) = storedHash.derived

\* requireUserPinVerified throws unless the user has a PIN and it matches
requireUserPinVerified(user, pin) ==
  pinHash(user) # NoPin /\ verifyPin(pin, pinHash(user))

startOfDay(t) == t - (t % DayMs)

RECURSIVE SumKes(_, _)
SumKes(L, S) ==
  IF S = {} THEN 0
  ELSE LET q == CHOOSE x \in S : TRUE IN L[q].amountKes + SumKes(L, S \ {q})

\* the $match of enforceLimits: the user's transactions created since local
\* midnight whose status is not "failed"
TodaysNonFailed(L, user, t) ==
  {q \in QuoteIds : /\ L[q].user = user
                    /\ L[q].createdAt >= startOfDay(t)
                    /\ L[q].status # "failed"}

enforceLimits(user, amountKes) ==
  IF amountKes > maxTxnKes THEN "per_txn"
  ELSE IF SumKes(ledger, TodaysNonFailed(ledger, user, now)) + amountKes > maxDailyKes
    THEN "daily"
  ELSE "ok"

\* an isQuoteExpired that lets a quote live one ms longer
isQuoteExpired_lenient(quote) ==
  quote.expiresAt = 0 \/ quote.expiresAt + 1 < now

isQuoteExpired(quote) ==
  quote.expiresAt = 0 \/ quote.expiresAt < now

FreeIds == {q \in QuoteIds : ledger[q] = NoQuote}

\* MpesaTransaction.create with buildQuote's quote: status "quoted", expiry
\* ttlMs after now
NewQuote(user, flow, amountKes) ==
  [user |-> user, flow |-> flow, amountKes |-> amountKes, createdAt |-> now,
   expiresAt |-> now + ttlMs, status |-> "quoted"]

\* fetchOrCreateQuoteTransaction: with a quoteId, the transaction of that
\* user and flow carrying it, unexpired, or a throw; without one, a new
\* quoted transaction for body.amount.  The result is the outcome, the
\* transaction and the collection after the call.
fetchOrCreateQuoteTransaction(user, flow, quoteId, amount) ==
  IF quoteId # 0
    THEN IF ~(ledger[quoteId].user = user /\ ledger[quoteId].flow = flow)
           THEN [out |-> "quote_not_found", q |-> 0, ledger |-> ledger]
         ELSE IF isQuoteExpired(ledger[quoteId])
           THEN [out |-> "quote_expired", q |-> 0, ledger |-> ledger]
         ELSE [out |-> "ok", q |-> quoteId, ledger |-> ledger]
    ELSE LET q == CHOOSE x \in FreeIds : \A y \in FreeIds : x <= y
         IN  [out |-> "ok", q |-> q,
              ledger |-> [ledger EXCEPT ![q] = NewQuote(user, flow, amount)]]

\* The authorization message names the transaction (its id, flow, quote and
\* amounts), so a signature is the pair of its signer and the transaction its
\* message names; ethers.verifyMessage recovers the signer when the signed
\* message is the message built for tx, and some other address otherwise.
recoverSigner(tx, signer, signedTx) == IF signedTx = tx THEN signer ELSE 0

\* a verifyAuthorizationSignature that accepts every recoverable signature
verifyAuthorizationSignature_anySigner(tx, user, signer, signedTx) ==
  recoverSigner(tx, signer, signedTx) # 0

verifyAuthorizationSignature(tx, user, signer, signedTx) ==
  /\ recoverSigner(tx, signer, signedTx) # 0
  /\ recoverSigner(tx, signer, signedTx) = user

\* what the handler stores for the transaction once the provider has
\* answered: accepted or rejected (the refund of a rejected funded payout is
\* followed in the payment model)
Finals == {"mpesa_processing", "failed"}

\* the first transition an initiate handler asserts
firstTransition(flow) ==
  IF flow \in FUNDED_FLOWS THEN "awaiting_user_authorization" ELSE "mpesa_submitted"

\* POST /quotes
AdmitQuote(user, flow, amount) ==
  /\ LET verdict == enforceLimits(user, amount)
     IN  IF verdict = "ok"
           THEN /\ FreeIds # {}
                /\ LET q == CHOOSE x \in FreeIds : \A y \in FreeIds : x <= y
                   IN  /\ ledger' = [ledger EXCEPT ![q] = NewQuote(user, flow, amount)]
                       /\ call' = [NoCall EXCEPT !.op = "quote", !.user = user,
                                     !.flow = flow, !.out = "quoted", !.q = q]
           ELSE /\ ledger' = ledger
                /\ call' = [NoCall EXCEPT !.op = "quote", !.user = user,
                              !.flow = flow, !.out = verdict]
  /\ UNCHANGED <<now, sent>>
  /\ UNCHANGED <<txs, events, proc, calls, subs, keySubs, backed, answered, refunds,
                 credits, serverErrors, config, library>>

\* POST /onramp/stk/initiate, /offramp/initiate, /merchant/paybill/initiate,
\* /merchant/buygoods/initiate without an Idempotency-Key match: the PIN
\* (funded flows), the quote binding, the signature (funded flows), the
\* first transition, the funding check (funded flows), the provider call and
\* the save of the provider's answer.  ensureFundingVerified throws before
\* it changes anything (no hash, or a hash another payout carries), or saves
\* the transaction in awaiting_onchain_funding when the verification fails,
\* or returns.
AdmitInitiate(user, flow, quoteId, amount, pin, signer, signedTx) ==
  LET isFunded == flow \in FUNDED_FLOWS
      b == fetchOrCreateQuoteTransaction(user, flow, quoteId, amount)
      answer(out, q) ==
        [op |-> "initiate", user |-> user, flow |-> flow, quoteId |-> quoteId,
         pin |-> pin, signer |-> signer, signedTx |-> signedTx, out |-> out, q |-> q]
  IN
  /\ quoteId = 0 => FreeIds # {}
  /\ IF isFunded /\ ~requireUserPinVerified(user, pin)
       THEN /\ call' = answer("pin", 0)
            /\ UNCHANGED <<ledger, sent>>
     ELSE IF b.out # "ok"
       THEN /\ call' = answer(b.out, 0)
            /\ UNCHANGED <<ledger, sent>>
     ELSE IF isFunded /\ ~verifyAuthorizationSignature(b.q, user, signer, signedTx)
       THEN /\ call' = answer("signature", b.q)
            /\ ledger' = b.ledger
            /\ UNCHANGED sent
     ELSE IF ~canTransition(b.ledger[b.q].status, firstTransition(flow))
       THEN /\ call' = answer("state", b.q)
            /\ ledger' = b.ledger
            /\ UNCHANGED sent
     ELSE \/ /\ isFunded
             /\ call' = answer("funding_missing", b.q)
             /\ ledger' = b.ledger
             /\ UNCHANGED sent
          \/ /\ isFunded
             /\ call' = answer("funding_failed", b.q)
             /\ ledger' = [b.ledger EXCEPT ![b.q].status = "awaiting_onchain_funding"]
             /\ UNCHANGED sent
          \/ \E final \in Finals :
               /\ call' = answer("submitted", b.q)
               /\ ledger' = [b.ledger EXCEPT ![b.q].status = final]
               /\ sent' = sent \cup {b.q}
  /\ UNCHANGED now
  /\ UNCHANGED <<txs, events, proc, calls, subs, keySubs, backed, answered, refunds,
                 credits, serverErrors, config, library>>

\* time passes, through the given instants
AdvanceClock(instants) ==
  /\ \E t \in instants :
       /\ t > now
       /\ \A u \in instants : u > now => t <= u
       /\ now' = t
  /\ UNCHANGED <<ledger, sent, call>>
  /\ UNCHANGED <<txs, events, proc, calls, subs, keySubs, backed, answered, refunds,
                 credits, serverErrors, config, library>>

\* The admission checks: requests of both kinds of flow for one amount,
\* with every PIN and signature, around the expiry of a quote.  The onramp
\* handler reads no pin and no signature; an amount is read only without a
\* quoteId.
AdmissionQuote ==
  \E user \in Users, flow \in {"onramp", "offramp"} :
    AdmitQuote(user, flow, maxTxnKes)

AdmissionInitiate ==
  \E user \in Users, quoteId \in {0} \cup QuoteIds :
    \/ AdmitInitiate(user, "onramp", quoteId, maxTxnKes, 0, 0, 0)
    \/ \E pin \in Pins, signer \in Users, signedTx \in QuoteIds :
         AdmitInitiate(user, "offramp", quoteId, maxTxnKes, pin, signer, signedTx)

ExpiryClock == AdvanceClock(ExpiryInstants)

InitAdmission == Init

NextAdmission ==
  \/ AdmissionQuote
  \/ AdmissionInitiate
  \/ ExpiryClock

SpecAdmission == InitAdmission /\ [][NextAdmission]_vars

\* The limits: onramp requests of every amount over two days.
LimitsQuote ==
  \E user \in Users, amount \in Amounts :
    AdmitQuote(user, "onramp", amount)

LimitsInitiate ==
  \E user \in Users, quoteId \in {0} \cup QuoteIds, amount \in Amounts :
    /\ quoteId # 0 => amount = maxTxnKes
    /\ AdmitInitiate(user, "onramp", quoteId, amount, 0, 0, 0)

DayClock == AdvanceClock(DayInstants)

InitLimits == Init

NextLimits ==
  \/ LimitsQuote
  \/ LimitsInitiate
  \/ DayClock

SpecLimits == InitLimits /\ [][NextLimits]_vars

\* --------------------------------------------------- requireBackendAuth
\* Math.floor(Date.now() / 1000) at the time of the request
NowSec == 1000

\* The words of a scope claim as the token carries them, and what
\* String(x).trim().toLowerCase() makes of them
ScopeWords == {"mpesa", "MPESA", "users", ""}

trimLower(w) == IF w = "MPESA" THEN "mpesa" ELSE w

SeqsUpTo2(S) == {<< >>} \cup {<<a>> : a \in S} \cup {<<a, b>> : a \in S, b \in S}

\* payload.scope: absent, a string (its words between white space) or an
\* array of strings
ScopeRaws ==
  {[kind |-> "absent", items |-> << >>]}
    \cup [kind : {"string", "array"}, items : SeqsUpTo2(ScopeWords)]

\* A bearer token: the number of its dot-separated parts, whether header and
\* payload decode to JSON, header.alg, the key its signature was made with,
\* payload.exp and payload.nbf (0: absent), whether payload.address or
\* payload.sub is there, and payload.scope.
Tokens ==
  [parts : {2, 3}, decodes : BOOLEAN, alg : {"HS256", "none"},
   signedWith : {"secret", "other"}, exp : {0, NowSec - 1, NowSec, NowSec + 1},
   nbf : {0, NowSec + 1}, subject : BOOLEAN, scope : ScopeRaws]

\* a request to a mobile-money endpoint: whether DOTPAY_BACKEND_JWT_SECRET is
\* set, whether the Authorization header carries a bearer token, the token
AuthRequests ==
  [fn : {"requireBackendAuth"}, secret : BOOLEAN, bearer : BOOLEAN, token : Tokens]

verifyToken(token) ==
  IF token.parts # 3 THEN "malformed"
  ELSE IF ~token.decodes THEN "decode_failed"
  ELSE IF token.alg # "HS256" THEN "unsupported_alg"
  ELSE IF token.signedWith # "secret" THEN "signature_mismatch"
  ELSE IF token.exp # 0 /\ token.exp < NowSec THEN "expired"
  ELSE IF token.nbf # 0 /\ token.nbf > NowSec THEN "not_before"
  ELSE IF ~token.subject THEN "missing_subject"
  ELSE "valid"

\* the scopes the middleware reads: the trimmed, lower-cased, non-empty words
scopes(scopeRaw) ==
  {trimLower(scopeRaw.items[i]) : i \in 1..Len(scopeRaw.items)} \ {""}

Answer(status, message) == [kind |-> "answer", status |-> status, message |-> message]

PassedOn == [kind |-> "next", status |-> 0, message |-> ""]

requireBackendAuth(req) ==
  IF ~req.secret THEN Answer(500, "not configured")
  ELSE IF ~req.bearer THEN Answer(401, "Missing bearer token.")
  ELSE IF verifyToken(req.token) # "valid" THEN Answer(401, "Invalid or expired token.")
  ELSE IF scopes(req.token.scope) # {} /\ "mpesa" \notin scopes(req.token.scope)
    THEN Answer(401, "Token scope is not allowed for M-Pesa endpoints.")
  ELSE PassedOn

\* the middleware serves the request
Authenticate ==
  /\ args.fn = "requireBackendAuth"
  /\ result = Pending
  /\ result' = requireBackendAuth(args)
  /\ UNCHANGED <<args, oauth>>
  /\ UNCHANGED <<txs, events, proc, calls, subs, keySubs, backed, answered, refunds,
                 credits, serverErrors, config, admission>>

InitAuth ==
  /\ PaymentIdle
  /\ AdmissionIdle
  /\ oauth = OAuthIdle
  /\ result = Pending
  /\ args \in AuthRequests

NextAuth == Authenticate

SpecAuth == InitAuth /\ [][NextAuth]_vars

\* --------------------------------------------------------- getAccessToken
\* the callers of getAccessToken
Callers == 1..MaxProc

\* payload.expires_in of the provider's answer, in seconds
ExpiresIn == {30, 3600}

Max(a, b) == IF a >= b THEN a ELSE b

\* the instants around the end of a token fetched at 0 with expires_in 30:
\* it is kept for 60 s and read from the cache while more than 10 s are left
OAuthInstants == {0, 49999, 50000, 60000}

\* the number of requests to the token endpoint that have not returned
InFlight == Cardinality({c \in Callers : oauth.pc[c] = "fetch"})

\* the test of getAccessToken on the cache
CacheFresh == oauth.cachedToken # "null" /\ oauth.cachedExpiresAt > now + 10000

\* getAccessToken(forceRefresh) up to its return from the cache or to its
\* first await, the fetch of the token endpoint
GetAccessToken(c, forceRefresh) ==
  /\ oauth.pc[c] = "idle"
  /\ IF ~forceRefresh /\ CacheFresh
       THEN oauth' = [oauth EXCEPT !.got[c] = oauth.cachedToken]
       ELSE /\ oauth.requests < MaxCalls
            /\ oauth' = [oauth EXCEPT !.pc[c] = "fetch", !.got[c] = "none",
                                      !.requests = @ + 1]
  /\ UNCHANGED <<args, result>>
  /\ UNCHANGED <<txs, events, proc, calls, subs, keySubs, backed, answered, refunds,
                 credits, serverErrors, config, admission>>

\* the token endpoint answers: the token is cached and returned, or the call
\* throws
FetchReturn(c, ok, expiresIn) ==
  /\ oauth.pc[c] = "fetch"
  /\ oauth' =
       IF ok
         THEN [oauth EXCEPT !.pc[c] = "idle", !.got[c] = "token",
                            !.cachedToken = "token",
                            !.cachedExpiresAt = now + Max(60, expiresIn - 30) * 1000]
         ELSE [oauth EXCEPT !.pc[c] = "idle", !.got[c] = "error"]
  /\ UNCHANGED <<args, result>>
  /\ UNCHANGED <<txs, events, proc, calls, subs, keySubs, backed, answered, refunds,
                 credits, serverErrors, config, admission>>

clearAccessToken ==
  /\ oauth.cachedToken # "null"
  /\ oauth' = [oauth EXCEPT !.cachedToken = "null", !.cachedExpiresAt = 0]
  /\ UNCHANGED <<args, result>>
  /\ UNCHANGED <<txs, events, proc, calls, subs, keySubs, backed, answered, refunds,
                 credits, serverErrors, config, admission>>

OAuthClock == AdvanceClock(OAuthInstants)

InitOAuth == Init

NextOAuth ==
  \/ \E c \in Callers, forceRefresh \in BOOLEAN : GetAccessToken(c, forceRefresh)
  \/ \E c \in Callers, ok \in BOOLEAN, expiresIn \in ExpiresIn : FetchReturn(c, ok, expiresIn)
  \/ clearAccessToken
  \/ OAuthClock

SpecOAuth == InitOAuth /\ [][NextOAuth]_vars

\* -------------------------------------------------------- assertTransition
\* the statuses a caller can hand to assertTransition: the known ones and
\* one the table does not know
AnyStatus == STATUSES \cup {"bogus"}

\* the transactions handed to assertTransition: a status and a history of
\* none or one entry
TransitionArgs ==
  [fn : {"assertTransition"},
   doc : [status : AnyStatus,
          history : {<< >>, <<<<"created", "quoted", "api">>>>}],
   to : AnyStatus,
   source : {"api", "webhook"}]

\* assertTransition(tx, to, reason, source) on the caller's object: it
\* returns with the object changed, or throws before it changes anything
ApplyTransition ==
  /\ args.fn = "assertTransition"
  /\ result = Pending
  /\ LET d == assertTransition(args.doc, args.to, args.source)
     IN  result' = IF d = StateError
                     THEN [kind |-> "thrown", doc |-> args.doc]
                     ELSE [kind |-> "returned", doc |-> d]
  /\ UNCHANGED <<args, oauth>>
  /\ UNCHANGED <<txs, events, proc, calls, subs, keySubs, backed, answered, refunds,
                 credits, serverErrors, config, admission>>

InitTransition ==
  /\ PaymentIdle
  /\ AdmissionIdle
  /\ oauth = OAuthIdle
  /\ result = Pending
  /\ args \in TransitionArgs

NextTransition == ApplyTransition

SpecTransition == InitTransition /\ [][NextTransition]_vars

\* --------------------------------------- calculateExpectedFundingFromQuote
\* Amounts are given in tenths of a millionth (value * 10^7), so that the
\* rounding of toScaledInt to millionths is visible; they are kept small
\* enough for totalDebitKesScaled * 10^decimals to stay below 2^31.
RECURSIVE Pow10(_)
Pow10(n) == IF n = 0 THEN 1 ELSE 10 * Pow10(n - 1)

\* quote.totalDebitKes * 10^7
DebitInputs == {4, 5, 10, 15, 1000, 1549, 20000}

\* quote.rateKesPerUsd * 10^7
RateInputs == {4, 10, 30, 70, 1550}

\* the decimals argument
DecimalsInputs == {0, 1, 2, 3, 6}

FundingArgs ==
  [fn : {"calculateExpectedFundingFromQuote"}, totalDebitKes : DebitInputs,
   rateKesPerUsd : RateInputs, decimals : DecimalsInputs]

\* toScaledInt(value, 6) of value = tenths / 10^7: Math.round(value * 10^6)
toScaledInt(tenths) == (tenths + 5) \div 10

\* Math.max(0, Math.min(18, Number(decimals || 6))): 0 is falsy
safeDecimals(decimals) ==
  Max(0, IF 18 <= (IF decimals = 0 THEN 6 ELSE decimals)
           THEN 18 ELSE (IF decimals = 0 THEN 6 ELSE decimals))

\* the function returns expectedUnits, or throws: on a zero amount, and on
\* the BigInt division by a rate that scales to zero
calculateExpectedFundingFromQuote(quote, decimals) ==
  LET totalDebitKesScaled == toScaledInt(quote.totalDebitKes)
      rateKesPerUsdScaled == toScaledInt(quote.rateKesPerUsd)
      tokenScale == Pow10(safeDecimals(decimals))
  IN  IF rateKesPerUsdScaled = 0 THEN [kind |-> "thrown", expectedUnits |-> 0]
      ELSE LET expectedUnits ==
                 (totalDebitKesScaled * tokenScale + rateKesPerUsdScaled - 1)
                   \div rateKesPerUsdScaled
           IN  IF expectedUnits <= 0 THEN [kind |-> "thrown", expectedUnits |-> 0]
               ELSE [kind |-> "returned", expectedUnits |-> expectedUnits]

CalculateFunding ==
  /\ args.fn = "calculateExpectedFundingFromQuote"
  /\ result = Pending
  /\ result' = calculateExpectedFundingFromQuote(
                 [totalDebitKes |-> args.totalDebitKes,
                  rateKesPerUsd |-> args.rateKesPerUsd], args.decimals)
  /\ UNCHANGED <<args, oauth>>
  /\ UNCHANGED <<txs, events, proc, calls, subs, keySubs, backed, answered, refunds,
                 credits, serverErrors, config, admission>>

InitFunding ==
  /\ PaymentIdle
  /\ AdmissionIdle
  /\ oauth = OAuthIdle
  /\ result = Pending
  /\ args \in FundingArgs

NextFunding == CalculateFunding

SpecFunding == InitFunding /\ [][NextFunding]_vars

\* -------------------------------------------------------- verifyUsdcFunding
\* A log of the receipt: the contract that emitted it, the event it parses
\* to, the from and to of a Transfer and its value.  "usdc", "sender" and
\* "treasury" are the configured token, the expected sender and the treasury
\* address; a log differs from a matching one in at most one of them.
LogKinds == {"match", "wrongToken", "notTransfer", "wrongFrom", "wrongTo"}

LogOf(kind, value) ==
  [address |-> IF kind = "wrongToken" THEN "other" ELSE "usdc",
   name    |-> IF kind = "notTransfer" THEN "Approval" ELSE "Transfer",
   from    |-> IF kind = "wrongFrom" THEN "other" ELSE "sender",
   to      |-> IF kind = "wrongTo" THEN "other" ELSE "treasury",
   value   |-> value]

ReceiptLogs == {LogOf(k, v) : k \in LogKinds, v \in {0, 5, 10}}

\* A funding check: the chain id of the RPC network, the configured one and
\* the one of the request (0: none), the receipt (found or not, its status,
\* its confirmations currentBlock - blockNumber + 1, its logs and whether
\* their logIndex rises or falls along the array), the configured
\* minFundingConfirmations and the expected amount.
VerifyArgs ==
  [fn : {"verifyUsdcFunding"}, networkChainId : {1, 2}, configuredChainId : {0, 1},
   providedChainId : {0, 1, 2}, found : BOOLEAN, status : {0, 1},
   confirmations : {1, 2}, logs : SeqsUpTo2(ReceiptLogs), rising : BOOLEAN,
   minFundingConfirmations : {1, 2}, expectedMinAmountUnits : {10, 15}]

\* log.logIndex of the i-th log of the receipt
logIndex(a, i) == IF a.rising THEN i - 1 ELSE Len(a.logs) - i

\* the logs the loop counts: of the token, a Transfer from the sender to the
\* treasury, of a positive amount
Counted(a) ==
  {i \in 1..Len(a.logs) :
     /\ a.logs[i].address = "usdc"
     /\ a.logs[i].name = "Transfer"
     /\ a.logs[i].from = "sender" /\ a.logs[i].to = "treasury"
     /\ a.logs[i].value > 0}

RECURSIVE SumValues(_, _)
SumValues(logs, S) ==
  IF S = {} THEN 0
  ELSE LET i == CHOOSE x \in S : TRUE IN logs[i].value + SumValues(logs, S \ {i})

\* firstMatchLogIndex after the loop over the counted logs
firstMatchLogIndex(a) ==
  CHOOSE x \in {logIndex(a, i) : i \in Counted(a)} :
    \A i \in Counted(a) : x <= logIndex(a, i)

FundingThrown(reason) ==
  [kind |-> "thrown", reason |-> reason, chainId |-> 0, fundedAmountUnits |-> 0,
   logIndex |-> 0]

verifyUsdcFunding(a) ==
  IF a.configuredChainId # 0 /\ a.networkChainId # a.configuredChainId
    THEN FundingThrown("rpc_chain_mismatch")
  ELSE IF a.providedChainId # 0 /\ a.providedChainId # a.networkChainId
    THEN FundingThrown("chain_mismatch")
  ELSE IF ~a.found THEN FundingThrown("no_receipt")
  ELSE IF a.status # 1 THEN FundingThrown("failed_onchain")
  ELSE IF Max(1, a.minFundingConfirmations) > 1
            /\ a.confirmations < Max(1, a.minFundingConfirmations)
    THEN FundingThrown("confirmations")
  ELSE IF SumValues(a.logs, Counted(a)) <= 0 THEN FundingThrown("no_proof")
  ELSE IF SumValues(a.logs, Counted(a)) < a.expectedMinAmountUnits
    THEN FundingThrown("below_required")
  ELSE [kind |-> "returned", reason |-> "", chainId |-> a.networkChainId,
        fundedAmountUnits |-> SumValues(a.logs, Counted(a)),
        logIndex |-> firstMatchLogIndex(a)]

VerifyFunding ==
  /\ args.fn = "verifyUsdcFunding"
  /\ result = Pending
  /\ result' = verifyUsdcFunding(args)
  /\ UNCHANGED <<args, oauth>>
  /\ UNCHANGED <<txs, events, proc, calls, subs, keySubs, backed, answered, refunds,
                 credits, serverErrors, config, admission>>

InitVerify ==
  /\ PaymentIdle
  /\ AdmissionIdle
  /\ oauth = OAuthIdle
  /\ result = Pending
  /\ args \in VerifyArgs

NextVerify == VerifyFunding

SpecVerify == InitVerify /\ [][NextVerify]_vars

\* ----------------------------------------------------------------- buildQuote
\* Money is counted in thousandths of a shilling or dollar (value * 1000),
\* so that an amount finer than a cent can be asked for and round2 is
\* visible; a value round2 returns is a multiple of 10.
FEE_BPS_BY_FLOW == [onramp |-> 130, offramp |-> 180, paybill |-> 120, buygoods |-> 120]

\* FEE_BPS_BY_FLOW[flowType] ?? 150
feeBps(flowType) ==
  IF flowType \in DOMAIN FEE_BPS_BY_FLOW THEN FEE_BPS_BY_FLOW[flowType] ELSE 150

\* quote.defaultRateKesPerUsd
defaultRateKesPerUsd == 130

\* round2 of num / den thousandths (den > 0): Math.round(value * 100) / 100
round2(num, den) == 10 * ((2 * num + 10 * den) \div (20 * den))

\* a fee without the floor of 5 KES
feeAmountKes_noFloor(amountKes, bps) == round2(amountKes * bps, 10000)

\* round2(Math.max(5, (amountKes * feeBps) / 10000))
feeAmountKes(amountKes, bps) == round2(Max(5000 * 10000, amountKes * bps), 10000)

\* body.amount * 1000: none, 1, 10, 100.005 and 1000
QuoteAmounts == {0, 1000, 10000, 100005, 1000000}

\* the requests: dollar amounts up to 10, so that the products stay below 2^31
QuoteArgs ==
  {q \in [fn : {"buildQuote"}, flowType : FLOW_TYPES \cup {"other"},
          amount : QuoteAmounts, currency : {"KES", "USD", "EUR"},
          kesPerUsd : {0, 155}] :
     q.currency = "USD" => q.amount <= 10000}

QuoteThrown(reason) ==
  [kind |-> "thrown", reason |-> reason, amountRequested |-> 0, amountKes |-> 0,
   amountUsd |-> 0, rateKesPerUsd |-> 0, feeAmountKes |-> 0, networkFeeKes |-> 0,
   totalDebitKes |-> 0, expectedReceiveKes |-> 0]

buildQuote(q) ==
  IF q.amount <= 0 THEN QuoteThrown("amount must be a positive number.")
  ELSE IF q.currency \notin {"KES", "USD"} THEN QuoteThrown("currency must be KES or USD.")
  ELSE
    LET rateKesPerUsd == IF q.kesPerUsd > 0 THEN q.kesPerUsd ELSE defaultRateKesPerUsd
        amountKes == IF q.currency = "KES" THEN q.amount
                     ELSE round2(q.amount * rateKesPerUsd, 1)
        amountUsd == IF q.currency = "USD" THEN q.amount
                     ELSE round2(q.amount, rateKesPerUsd)
        fee == feeAmountKes(amountKes, feeBps(q.flowType))
        networkFeeKes == round2(IF q.flowType = "onramp" THEN 0 ELSE 3000, 1)
    IN  [kind |-> "returned", reason |-> "",
         amountRequested |-> round2(q.amount, 1),
         amountKes |-> amountKes,
         amountUsd |-> amountUsd,
         rateKesPerUsd |-> rateKesPerUsd,
         feeAmountKes |-> fee,
         networkFeeKes |-> networkFeeKes,
         totalDebitKes |-> round2(amountKes + fee + networkFeeKes, 1),
         expectedReceiveKes |-> round2(amountKes, 1)]

BuildQuote ==
  /\ args.fn = "buildQuote"
  /\ result = Pending
  /\ result' = buildQuote(args)
  /\ UNCHANGED <<args, oauth>>
  /\ UNCHANGED <<txs, events, proc, calls, subs, keySubs, backed, answered, refunds,
                 credits, serverErrors, config, admission>>

InitQuote ==
  /\ PaymentIdle
  /\ AdmissionIdle
  /\ oauth = OAuthIdle
  /\ result = Pending
  /\ args \in QuoteArgs

NextQuote == BuildQuote

SpecQuote == InitQuote /\ [][NextQuote]_vars

\* -------------------------------------------------------------- assertPinFormat
MaxPinLen == 8    \* characters of a pin argument

\* the characters of a pin argument: two digits, a blank and a letter
PinChars == {"1", "2", " ", "a"}

isDigit(c) == c \in {"1", "2"}

PinInputs == UNION {[1..n -> PinChars] : n \in 0..MaxPinLen}

PinArgs == [fn : {"assertPinFormat"}, pin : PinInputs]

\* String.prototype.trim
RECURSIVE trimStart(_)
trimStart(s) == IF s # << >> /\ Head(s) = " " THEN trimStart(Tail(s)) ELSE s

RECURSIVE trimEnd(_)
trimEnd(s) ==
  IF s # << >> /\ s[Len(s)] = " " THEN trimEnd(SubSeq(s, 1, Len(s) - 1)) ELSE s

trim(s) == trimEnd(trimStart(s))

\* String(value || "").trim().replace(/\D/g, "")
normalizePin(value) == SelectSeq(trim(value), isDigit)

\* assertPinFormat(pin, 6): the normalized pin, or a throw
assertPinFormat(pin) ==
  LET normalized == normalizePin(pin)
  IN  IF normalized = << >> THEN [kind |-> "thrown", pin |-> << >>]
      ELSE IF \E i \in 1..Len(normalized) : ~isDigit(normalized[i])
        THEN [kind |-> "thrown", pin |-> << >>]
      ELSE IF Len(normalized) # 6 THEN [kind |-> "thrown", pin |-> << >>]
      ELSE [kind |-> "returned", pin |-> normalized]

AssertPinFormat ==
  /\ args.fn = "assertPinFormat"
  /\ result = Pending
  /\ result' = assertPinFormat(args.pin)
  /\ UNCHANGED <<args, oauth>>
  /\ UNCHANGED <<txs, events, proc, calls, subs, keySubs, backed, answered, refunds,
                 credits, serverErrors, config, admission>>

InitPin ==
  /\ PaymentIdle
  /\ AdmissionIdle
  /\ oauth = OAuthIdle
  /\ result = Pending
  /\ args \in PinArgs

NextPin == AssertPinFormat

SpecPin == InitPin /\ [][NextPin]_vars

\* ------------------------------------------------------ requireIdempotencyKey
\* An Idempotency-Key header: absent, or white space around a body that
\* begins and ends with other characters; the body is given by its length
\* and by one of its characters, the others being the letter x.
KeyLengths == {0, 1, 7, 8, 9, 128, 129}

KeyChars == {"x", "Z", "5", "_", "-", ":", ".", "/", " ", "+"}

KeyHeaders ==
  {h \in [present : BOOLEAN, lead : {0, 1}, trail : {0, 1}, len : KeyLengths,
          char : KeyChars] :
     /\ ~h.present => (h.lead = 0 /\ h.trail = 0 /\ h.len = 0)
     /\ h.len = 0 => (h.char = "x" /\ h.trail = 0)
     /\ h.char = " " => h.len >= 3}

KeyArgs == [fn : {"requireIdempotencyKey"}, header : KeyHeaders]

\* String(req.get("idempotency-key") || "").trim(): the body
trimmedKey(h) == [len |-> h.len, char |-> h.char]

\* a length test that shuts out the ends
lengthAllowed_exclusive(n) == ~(n <= 8 \/ n >= 128)

\* key.length < 8 || key.length > 128 is false
lengthAllowed(n) == ~(n < 8 \/ n > 128)

\* /^[A-Za-z0-9_\-:.]+$/.test(key)
charsAllowed(key) ==
  key.len >= 1 /\ key.char \in {"x", "Z", "5", "_", "-", ":", "."}

requireIdempotencyKey(req) ==
  LET key == trimmedKey(req.header)
  IN  IF key.len = 0
        THEN [kind |-> "answer", status |-> 400,
              message |-> "Idempotency-Key header is required.", idempotencyKey |-> key]
      ELSE IF ~lengthAllowed(key.len)
        THEN [kind |-> "answer", status |-> 400,
              message |-> "Idempotency-Key must be 8-128 characters.",
              idempotencyKey |-> key]
      ELSE IF ~charsAllowed(key)
        THEN [kind |-> "answer", status |-> 400,
              message |-> "Idempotency-Key contains unsupported characters.",
              idempotencyKey |-> key]
      ELSE [kind |-> "next", status |-> 0, message |-> "", idempotencyKey |-> key]

RequireIdempotencyKey ==
  /\ args.fn = "requireIdempotencyKey"
  /\ result = Pending
  /\ result' = requireIdempotencyKey(args)
  /\ UNCHANGED <<args, oauth>>
  /\ UNCHANGED <<txs, events, proc, calls, subs, keySubs, backed, answered, refunds,
                 credits, serverErrors, config, admission>>

InitKey ==
  /\ PaymentIdle
  /\ AdmissionIdle
  /\ oauth = OAuthIdle
  /\ result = Pending
  /\ args \in KeyArgs

NextKey == RequireIdempotencyKey

SpecKey == InitKey /\ [][NextKey]_vars

\* ================================================================ claims

\* ------------------------------------------------------------------- C1
\* The allowed-transition table, pair by pair.
AllowedPairs ==
  { <<"created", "quoted">>, <<"created", "awaiting_user_authorization">>,
    <<"created", "failed">>,
    <<"quoted", "awaiting_user_authorization">>, <<"quoted", "mpesa_submitted">>,
    <<"quoted", "failed">>,
    <<"awaiting_user_authorization", "awaiting_onchain_funding">>,
    <<"awaiting_user_authorization", "mpesa_submitted">>,
    <<"awaiting_user_authorization", "failed">>,
    <<"awaiting_onchain_funding", "mpesa_submitted">>,
    <<"awaiting_onchain_funding", "failed">>,
    <<"mpesa_submitted", "mpesa_processing">>, <<"mpesa_submitted", "succeeded">>,
    <<"mpesa_submitted", "failed">>,
    <<"mpesa_processing", "succeeded">>, <<"mpesa_processing", "failed">>,
    <<"failed", "refund_pending">>, <<"failed", "refunded">>,
    <<"refund_pending", "refunded">>, <<"refund_pending", "failed">> }

\* every entry of a history is a transition of the table
Legal(history) ==
  \A i \in 1..Len(history) : <<history[i][1], history[i][2]>> \in AllowedPairs

\* ------------------------------------------------- retried payouts
\* The offramp initiate handler called again and again for one quote, with
\* Idempotency-Key values old and new, and the reconciler run again and
\* again.  No request of the transaction reaches the provider before the
\* handler submits it, so no callback arrives before.
MaxRetryKeys == 2

RetryKeys == 1..MaxRetryKeys

\* requests keep coming: the count of the requests served, which bounds the
\* payment model, starts again when no handler is running
NextRound ==
  /\ calls = MaxCalls
  /\ \A p \in Procs : proc[p].pc = "idle"
  /\ calls' = 0
  /\ UNCHANGED <<txs, events, proc, subs, keySubs, backed, answered, refunds, credits>>
  /\ UNCHANGED <<serverErrors, config, admission, library>>

\* an initiate call of the offramp flow for the quote q with the key k; it
\* names the funding transaction or leaves it to the stored one
Retry(q, k) ==
  \E p \in Procs, h \in Hashes \cup {NoHash} : InitiateExisting(p, "offramp", k, q, h)

\* a reconcile run over the transactions in mpesa_processing
ReconcileAll ==
  \E p \in Procs :
    ReconcileFind(p, NoTx, {t \in TxIds : Exists(t) /\ txs[t].status = "mpesa_processing"})

\* one offramp quote has been created by POST /quotes
InitRetry ==
  /\ txs = [t \in TxIds |-> IF t = 1 THEN NewTransaction("offramp", NoKey) ELSE NoDoc]
  /\ events = [k \in EventKeys |-> 0]
  /\ proc = [p \in Procs |-> Idle]
  /\ calls = 0
  /\ subs = [t \in TxIds |-> 0]
  /\ keySubs = [fk \in FLOW_TYPES \X RetryKeys |-> 0]
  /\ backed = [h \in Hashes |-> {}]
  /\ answered = [fk \in FLOW_TYPES \X RetryKeys |-> {}]
  /\ refunds = [t \in TxIds |-> 0]
  /\ credits = [t \in TxIds |-> 0]
  /\ serverErrors = 0
  /\ config = Deployment
  /\ AdmissionIdle
  /\ LibraryIdle

NextRetry ==
  \/ \E k \in RetryKeys : Retry(1, k)
  \/ \E p \in Procs : InitiateFetch(p)
  \/ \E p \in Procs : InitiateDuplicate(p)
  \/ \E p \in Procs : InitiateVerify(p)
  \/ \E p \in Procs : InitiateFailSave(p)
  \/ \E p \in Procs : InitiateSubmit(p)
  \/ \E p \in Procs : InitiateSave(p)
  \/ \E p \in Procs : RefundExecute(p)
  \/ \E p \in Procs : RefundSave(p)
  \/ ReconcileAll
  \/ \E p \in Procs : ReconcileSave(p)
  \/ NextRound

\* Every handler goes on after each await; calls with each key and reconcile
\* runs are made again and again; and again and again a call passes the PIN
\* and signature checks and finds its funding verified.
FairRetry ==
  /\ \A k \in RetryKeys : SF_vars(Retry(1, k))
  /\ \A p \in Procs : SF_vars(InitiateFetchWith(p, TRUE, TRUE))
  /\ \A p \in Procs : SF_vars(InitiateVerifyWith(p, TRUE))
  /\ \A p \in Procs : WF_vars(InitiateDuplicate(p))
  /\ \A p \in Procs : WF_vars(InitiateFailSave(p))
  /\ \A p \in Procs : WF_vars(InitiateSubmit(p))
  /\ \A p \in Procs : WF_vars(InitiateSave(p))
  /\ \A p \in Procs : WF_vars(RefundExecute(p))
  /\ \A p \in Procs : WF_vars(RefundSave(p))
  /\ \A p \in Procs : WF_vars(ReconcileSave(p))
  /\ SF_vars(ReconcileAll)
  /\ WF_vars(NextRound)

SpecRetry == InitRetry /\ [][NextRetry]_vars /\ FairRetry

\* ------------------------------------------------- routing of /api/mpesa
\* app.use("/api/mpesa", mpesaWebhooksRouter); app.use("/api/mpesa",
\* mpesaRouter): a request under /api/mpesa enters the routers in this order.
\* In a router the middlewares given to router.use() run for every request
\* that enters it, in the order of declaration with the routes; a request
\* that matches no route leaves the router for the next one.
\*   path          : the path below /api/mpesa (with the method of its route)
\*   secret        : ?secret= or x-mpesa-webhook-secret, "" when absent
\*   authorized    : the credential of the endpoint is valid (the bearer
\*                   token, the internal key for /internal/reconcile)
\*   webhookSecret : callbacks.webhookSecret of the configuration
WebhookPaths ==
  {"/webhooks/stk", "/webhooks/b2c/result", "/webhooks/b2c/timeout",
   "/webhooks/b2b/result", "/webhooks/b2b/timeout"}

UserPaths == {"/quotes", "/offramp/initiate", "/transactions"}

RouteArgs ==
  [fn : {"app"}, path : WebhookPaths \cup UserPaths \cup {"/internal/reconcile", "/other"},
   secret : {"", "s3cret", "wrong"}, authorized : BOOLEAN,
   webhookSecret : {"", "s3cret"}]

Fallthrough == [kind |-> "next", status |-> 0, message |-> ""]

\* the router of the webhooks: its router.use() middleware, then its routes
mpesaWebhooksRouter(req) ==
  IF req.webhookSecret # "" /\ (req.secret = "" \/ req.secret # req.webhookSecret)
    THEN Answer(401, "Unauthorized")
  ELSE IF req.path \in WebhookPaths THEN Answer(200, "Accepted")
  ELSE Fallthrough

\* the router of the API: /internal/reconcile behind requireInternalKey,
\* then router.use(requireBackendAuth) and the routes of the users
mpesaRouter(req) ==
  IF req.path = "/internal/reconcile"
    THEN IF req.authorized THEN Answer(200, "ok") ELSE Answer(401, "Unauthorized internal request.")
  ELSE IF ~req.authorized THEN Answer(401, "Missing bearer token.")
  ELSE IF req.path \in UserPaths THEN Answer(200, "ok")
  ELSE Fallthrough

\* the application: the first answer of the routers, 404 when none answers
app(req) ==
  IF mpesaWebhooksRouter(req) # Fallthrough THEN mpesaWebhooksRouter(req)
  ELSE IF mpesaRouter(req) # Fallthrough THEN mpesaRouter(req)
  ELSE Answer(404, "Not Found")

Route ==
  /\ result = Pending
  /\ result' = app(args)
  /\ UNCHANGED <<args, oauth>>
  /\ UNCHANGED <<txs, events, proc, calls, subs, keySubs, backed, answered, refunds,
                 credits, serverErrors, config, admission>>

InitRoute ==
  /\ PaymentIdle
  /\ AdmissionIdle
  /\ args \in RouteArgs
  /\ result = Pending
  /\ oauth = OAuthIdle

NextRoute == Route

SpecRoute == InitRoute /\ [][NextRoute]_vars

\* ----------------------------------------------------------- darajaRequest
\* darajaRequest(url, body, retry = true), for each of its callers: args[c]
\* is the frame of the call and result[c] what it returns or throws.
\*   pc     : "start", "token" (awaiting getAccessToken), "post" (awaiting
\*            the provider's response), "done"
\*   retry  : the parameter of the running invocation
\*   posts  : requests sent to the provider so far
\*   first, last : response.status of the first and of the latest response
\*   src    : where the token of the running invocation came from: the
\*            cache, or a request to the token endpoint made by it
\*   clears : calls of clearAccessToken made
HttpStatuses == {200, 400, 401}

NewRequest ==
  [pc |-> "start", retry |-> TRUE, posts |-> 0, first |-> 0, last |-> 0,
   src |-> "none", clears |-> 0]

Returned(ok, status) == [kind |-> "returned", ok |-> ok, status |-> status]

\* clearAccessToken() on the module state o
\* a clearAccessToken that leaves the cache as it is
cacheCleared_kept(o) == o

cacheCleared(o) == [o EXCEPT !.cachedToken = "null", !.cachedExpiresAt = 0]

\* `const token = await getAccessToken()` on the module state o, up to the
\* return from the cache or to the fetch of the token endpoint: the frame
\* and the module state that result
awaitAccessToken(f, o, c) ==
  IF o.cachedToken # "null" /\ o.cachedExpiresAt > now + 10000
    THEN <<[f EXCEPT !.pc = "post", !.src = "cache"],
           [o EXCEPT !.got[c] = o.cachedToken]>>
    ELSE <<[f EXCEPT !.pc = "token", !.src = "none"],
           [o EXCEPT !.pc[c] = "fetch", !.got[c] = "none", !.requests = @ + 1]>>

\* the call, up to its first await
DarajaRequest(c) ==
  /\ args[c].pc = "start"
  /\ LET n == awaitAccessToken(args[c], oauth, c) IN
     /\ args' = [args EXCEPT ![c] = n[1]]
     /\ oauth' = n[2]
  /\ UNCHANGED result
  /\ UNCHANGED <<txs, events, proc, calls, subs, keySubs, backed, answered, refunds,
                 credits, serverErrors, config, admission>>

\* the token endpoint answers: getAccessToken caches and returns the token
\* and the request is sent, or getAccessToken throws and darajaRequest with it
DarajaToken(c, ok, expiresIn) ==
  /\ args[c].pc = "token"
  /\ oauth.pc[c] = "fetch"
  /\ IF ok
       THEN /\ oauth' = [oauth EXCEPT !.pc[c] = "idle", !.got[c] = "token",
                                      !.cachedToken = "token",
                                      !.cachedExpiresAt = now + Max(60, expiresIn - 30) * 1000]
            /\ args' = [args EXCEPT ![c].pc = "post", ![c].src = "fetch"]
            /\ UNCHANGED result
       ELSE /\ oauth' = [oauth EXCEPT !.pc[c] = "idle", !.got[c] = "error"]
            /\ args' = [args EXCEPT ![c].pc = "done"]
            /\ result' = [result EXCEPT ![c] = [kind |-> "thrown"]]
  /\ UNCHANGED <<txs, events, proc, calls, subs, keySubs, backed, answered, refunds,
                 credits, serverErrors, config, admission>>

\* the provider answers with `status`: on a 401 with retry set the cache is
\* cleared and darajaRequest(url, body, false) runs up to its first await;
\* otherwise {ok, status, data} is returned
DarajaResponse(c, status) ==
  /\ args[c].pc = "post"
  /\ LET f == [args[c] EXCEPT !.posts = @ + 1,
                              !.first = IF args[c].posts = 0 THEN status ELSE @,
                              !.last = status]
     IN
     IF status = 401 /\ f.retry
       THEN LET n == awaitAccessToken([f EXCEPT !.retry = FALSE, !.clears = @ + 1],
                                      cacheCleared(oauth), c)
            IN /\ args' = [args EXCEPT ![c] = n[1]]
               /\ oauth' = n[2]
               /\ UNCHANGED result
       ELSE /\ args' = [args EXCEPT ![c] = [f EXCEPT !.pc = "done"]]
            /\ result' = [result EXCEPT ![c] = Returned(status \in 200..299, status)]
            /\ UNCHANGED oauth
  /\ UNCHANGED <<txs, events, proc, calls, subs, keySubs, backed, answered, refunds,
                 credits, serverErrors, config, admission>>

\* fetch(url) rejects: darajaRequest throws
DarajaUnreachable(c) ==
  /\ args[c].pc = "post"
  /\ args' = [args EXCEPT ![c].pc = "done"]
  /\ result' = [result EXCEPT ![c] = [kind |-> "thrown"]]
  /\ UNCHANGED oauth
  /\ UNCHANGED <<txs, events, proc, calls, subs, keySubs, backed, answered, refunds,
                 credits, serverErrors, config, admission>>

DarajaClock ==
  /\ now' \in OAuthInstants
  /\ now' > now
  /\ UNCHANGED <<ledger, sent, call, library>>
  /\ UNCHANGED <<txs, events, proc, calls, subs, keySubs, backed, answered, refunds,
                 credits, serverErrors, config>>

InitDaraja ==
  /\ PaymentIdle
  /\ AdmissionIdle
  /\ args = [c \in Callers |-> NewRequest]
  /\ result = [c \in Callers |-> Pending]
  /\ oauth = OAuthIdle

NextDaraja ==
  \/ \E c \in Callers : DarajaRequest(c)
  \/ \E c \in Callers, ok \in BOOLEAN, expiresIn \in ExpiresIn : DarajaToken(c, ok, expiresIn)
  \/ \E c \in Callers, status \in HttpStatuses : DarajaResponse(c, status)
  \/ \E c \in Callers : DarajaUnreachable(c)
  \/ DarajaClock

SpecDaraja == InitDaraja /\ [][NextDaraja]_vars

\* C1: every status change applied through assertTransition, by an initiate
\* handler, a webhook handler, the reconciler, the refund service or the
\* credit settler, is a pair of the allowed-transition table (a same-state
\* call changes nothing and records nothing); canTransition is true exactly
\* for the pairs of the table and the same-state pairs over the ten known
\* statuses, and false when either status is unknown.
C1_TransitionsAllowed ==
  /\ \A t \in TxIds : Legal(txs[t].history)
  /\ \A p \in Procs : Legal(proc[p].doc.history)
  \* the table is the same in every state: it is compared once
  /\ calls = 0 =>
       \A from \in STATUSES \cup {"unknown"}, to \in STATUSES \cup {"unknown"} :
         canTransition(from, to) <=>
           /\ from \in STATUSES
           /\ to \in STATUSES
           /\ from = to \/ <<from, to>> \in AllowedPairs

\* a transaction that was refunded after a callback: the api, the provider
\* response, the webhook and the refund service have each applied a change
C1_Witness ==
  \E t \in TxIds :
    /\ txs[t].status = "refunded"
    /\ \E i \in 1..Len(txs[t].history) : txs[t].history[i][3] = "webhook"
    /\ \E i \in 1..Len(txs[t].history) : txs[t].history[i][3] = "daraja"

\* ------------------------------------------------------------------- C2
\* C2: once the stored status of a transaction is succeeded or refunded, no
\* step of any handler, running later or concurrently on its own copy of
\* the document, changes the stored status.
C2_TerminalStatusFinal ==
  [][\A t \in TxIds :
       txs[t].status \in {"succeeded", "refunded"} => txs'[t].status = txs[t].status]_vars

\* a submitted payout that a success callback completed and a concurrent
\* failure handling then failed and refunded
C2_Witness ==
  \E t \in TxIds :
    /\ subs[t] = 1
    /\ txs[t].status = "refunded"
    /\ refunds[t] = 1
    /\ \E i \in 1..Len(txs[t].history) :
         txs[t].history[i] = <<"mpesa_processing", "succeeded", "webhook">>

\* ------------------------------------------------------------------- C3
\* C3: for initiate calls of one flow carrying the same Idempotency-Key, with
\* or without a quoteId and in any interleaving, every 200 answer names the
\* same transaction and the provider receives at most one submission for
\* the key.
C3_OneSubmissionPerKey ==
  \A fk \in FLOW_TYPES \X Keys :
    /\ Cardinality(answered[fk]) <= 1
    /\ keySubs[fk] <= 1

\* the provider has received two submissions for one key and both initiate
\* handlers have answered
C3_Witness ==
  /\ \A p \in Procs : proc[p].pc = "idle"
  /\ \E fk \in FLOW_TYPES \X Keys : keySubs[fk] = 2

\* ------------------------------------------------------------------- C4
\* C4: one funding hash backs at most one payout: of the transactions that
\* present the same onchainTxHash at most one is submitted to the provider,
\* and no two stored transactions carry the same non-null onchain.txHash.
C4_OnePayoutPerFunding ==
  /\ \A h \in Hashes : Cardinality(backed[h]) <= 1
  /\ \A t \in TxIds, u \in TxIds :
       t # u /\ txs[t].hash # NoHash => txs[u].hash # txs[t].hash

\* two transactions were submitted to the provider on one funding hash
C4_Witness ==
  /\ \A p \in Procs : proc[p].pc = "idle"
  /\ \E h \in Hashes : Cardinality(backed[h]) = 2

\* ------------------------------------------------------------------- C5
\* the last n transitions recorded on a document
Path(doc, n) ==
  [i \in 1..n |-> <<doc.history[Len(doc.history) - n + i][1],
                    doc.history[Len(doc.history) - n + i][2]>>]

\* C5: with on-chain funding required, a funded-flow initiate call sends its
\* request to the provider, with the transaction in mpesa_submitted, only
\* after verifyUsdcFunding succeeded in that call and the document went
\* through awaiting_user_authorization and awaiting_onchain_funding; when
\* the verification fails the call sends nothing, the status stays at most
\* awaiting_onchain_funding, and verificationStatus = failed with the reason
\* in verificationError is stored.
C5_FundingGate ==
  [][\A p \in Procs :
       LET r == proc[p] IN
       /\ r.pc = "i_submit" /\ r.flow \in FUNDED_FLOWS /\ requiresOnchainFunding(r.flow) =>
            /\ r.verified
            /\ r.doc.status = "mpesa_submitted"
            /\ Len(r.doc.history) >= 3
            /\ Path(r.doc, 2) = << <<"awaiting_user_authorization", "awaiting_onchain_funding">>,
                                   <<"awaiting_onchain_funding", "mpesa_submitted">> >>
            /\ r.doc.history[Len(r.doc.history) - 2][2] = "awaiting_user_authorization"
       /\ r.pc = "i_failsave" /\ proc'[p] # r =>
            /\ ~r.sent
            /\ subs' = subs
            /\ r.doc.status = "awaiting_onchain_funding"
            /\ txs'[r.t].ver = "failed"
            /\ txs'[r.t].verErr]_vars

\* the save that records a failed verification is about to be refused by a
\* unique index
C5_Witness ==
  \E p \in Procs : proc[p].pc = "i_failsave" /\ ~SaveApplies(p)

\* ------------------------------------------------------------------- C6
\* the transitions this handling has applied to its document
Mine(r) == LastN(r.doc.history, r.nh + r.npush)

\* C6 as stated: delivering the same callback more than once leaves one
\* event row for its eventKey, and a delivery results in at most one status
\* transition and one history entry.
C6_OneTransitionPerCallback ==
  /\ \A k \in EventKeys : events[k] <= 1
  /\ \A p \in Procs : proc[p].kind = "webhook" => Len(Mine(proc[p])) <= 1

\* C6, amended: an eventKey never has more than one row; only the delivery
\* that inserted the row modifies the transaction; that delivery applies at
\* most one transition of its own (source webhook), which for a failed
\* funded-flow transaction is followed by the transitions of the refund
\* service (failed -> refund_pending -> refunded or failed); every other
\* delivery is acknowledged with the transaction untouched.
C6_CallbackAppliedOnce ==
  /\ \A k \in EventKeys : events[k] <= 1
  /\ \A p \in Procs :
       LET r == proc[p] IN
       r.kind = "webhook" =>
         /\ r.dirty # {} \/ r.npush > 0 \/ r.nh > 0 \/ r.pc \notin {"idle", "w_event"}
              => r.inserted /\ events[eventKey(r.wkind, r.t, r.code)] = 1
         /\ Cardinality({i \in 1..Len(Mine(r)) : Mine(r)[i][3] = "webhook"}) <= 1
         /\ \A i \in 1..Len(Mine(r)) : Mine(r)[i][3] \in {"webhook", "refund_service"}
         /\ Len(Mine(r)) <= 3

\* a second delivery of a failure callback is about to be acknowledged: the
\* first one has inserted the row, failed the transaction and refunded it
C6_Witness ==
  \E p \in Procs :
    /\ proc[p].pc = "w_event"
    /\ events[eventKey(proc[p].wkind, proc[p].t, proc[p].code)] = 1
    /\ txs[proc[p].t].status = "refunded"
    /\ \E i \in 1..Len(txs[proc[p].t].history) : txs[proc[p].t].history[i][3] = "webhook"

\* ------------------------------------------------------------------- C7
\* C7: the outcome of a payout does not depend on whether the result
\* callback of the submission is handled before or after the initiate
\* handler saves the provider's synchronous response: the first delivery of
\* a result callback to a funded-flow transaction that has not reached an
\* outcome applies succeeded (success) or failed (failure), and the save of
\* the initiate handler leaves a stored outcome as it is.
C7_CallbackOrderIndependent ==
  [][\A p \in Procs :
       LET r == proc[p]
           k == eventKey(r.wkind, r.t, r.code)
       IN
       /\ ( /\ r.pc = "w_event" /\ proc'[p] # r
            /\ r.posted
            /\ events'[k] # events[k]
            /\ r.doc.flow \in FUNDED_FLOWS
            /\ r.wkind \in {"b2c_result", "b2b_result"}
            /\ r.doc.status \notin {"succeeded", "failed", "refund_pending", "refunded"} )
          => /\ proc'[p].pc = "w_save"
             /\ proc'[p].doc.status =
                  IF parseResultCode(r.code).isSuccess THEN "succeeded" ELSE "failed"
       /\ ( /\ r.pc = "i_save" /\ proc'[p] # r
            /\ txs[r.t].status \in {"succeeded", "failed", "refund_pending", "refunded"} )
          => txs'[r.t].status = txs[r.t].status]_vars

\* the success callback of an accepted B2C submission is on record, no
\* handler is running, and the transaction is left in mpesa_processing
C7_Witness ==
  \E t \in TxIds :
    /\ \A p \in Procs : proc[p].pc = "idle"
    /\ calls = 2
    /\ txs[t].flow = "offramp"
    /\ subs[t] = 1
    /\ events[<<"b2c_result", t, "0">>] = 1
    /\ txs[t].status = "mpesa_processing"

\* ------------------------------------------------------------------- C8
\* C8: the synchronous provider response is accepted exactly when the HTTP
\* status is 2xx and ResponseCode is "0"; an accepted response moves the
\* transaction mpesa_submitted -> mpesa_processing, any other response
\* moves it mpesa_submitted -> failed, and for a funded flow the rejection
\* is followed by scheduleAutoRefund.
C8_ResponseClassification ==
  [][\A p \in Procs :
       LET r == proc[p] IN
       r.pc = "i_save" /\ proc'[p] # r =>
         /\ r.accepted <=> (r.rok /\ r.rcode = "string 0")
         /\ Path(r.doc, 1)[1] =
              IF r.accepted THEN <<"mpesa_submitted", "mpesa_processing">>
                            ELSE <<"mpesa_submitted", "failed">>
         /\ ~r.accepted /\ r.flow \in FUNDED_FLOWS /\ autoRefund
              => proc'[p].pc = "r_exec" /\ txs'[r.t].status = "failed"]_vars

\* the provider has rejected a funded-flow payout and the save of the
\* failed transaction is about to be refused by a unique index
C8_Witness ==
  \E p \in Procs :
    /\ proc[p].pc = "i_save"
    /\ proc[p].flow \in FUNDED_FLOWS
    /\ ~proc[p].accepted
    /\ ~SaveApplies(p)

\* ------------------------------------------------------------------- C9
\* C9: when the provider call of a funded-flow initiate ends in an external
\* error instead of a response, the transaction is moved to failed and the
\* handler goes on to persist it and to schedule the refund, as it does
\* for a synchronous rejection.
C9_ExternalErrorFails ==
  [][\A p \in Procs :
       LET r == proc[p] IN
       r.pc = "i_submit" /\ r.flow \in FUNDED_FLOWS /\ proc'[p] # r /\ subs' = subs
         => proc'[p].pc = "i_save" /\ proc'[p].doc.status = "failed"]_vars

\* ------------------------------------------------------------------ C10
\* C10: a webhook handler (any of the five) that applies a failure result or
\* a timeout to a funded-flow transaction in mpesa_submitted or
\* mpesa_processing moves it to failed and, auto-refund being enabled, goes
\* on to the refund attempt in the same handling.
C10_FailureCallbackRefunds ==
  [][\A p \in Procs :
       LET r == proc[p] IN
       ( /\ r.kind = "webhook" /\ r.pc = "w_save" /\ proc'[p] # r
         /\ r.doc.flow \in FUNDED_FLOWS
         /\ r.npush = 1
         /\ Path(r.doc, 1)[1] \in {<<"mpesa_submitted", "failed">>,
                                   <<"mpesa_processing", "failed">>}
         /\ autoRefund )
       => /\ txs'[r.t].status = "failed"
          /\ proc'[p].pc = "r_exec"]_vars

\* the STK failure callback of a submitted funded-flow transaction is on
\* record, no handler is running, and the transaction is left failed with
\* no refund attempted
C10_Witness ==
  \E t \in TxIds :
    /\ \A p \in Procs : proc[p].pc = "idle"
    /\ txs[t].flow \in FUNDED_FLOWS
    /\ subs[t] = 1
    /\ events[<<"stk", t, "1">>] = 1
    /\ txs[t].status = "failed"
    /\ txs[t].rstatus = "none"
    /\ refunds[t] = 0
    /\ txs[t].history[Len(txs[t].history)] = <<"mpesa_processing", "failed", "webhook">>

\* ------------------------------------------------------------------ C11
\* C11: the treasury-to-user credit of an onramp transaction is transferred at
\* most once, whatever the number and interleaving of STK success callbacks
\* and settlement runs: two settlement runs are never both in the transfer
\* for one transaction, and no transaction is credited twice.
C11_CreditAtMostOnce ==
  /\ \A t \in TxIds : credits[t] <= 1
  /\ \A p \in Procs, q \in Procs :
       p # q /\ proc[p].pc = "s_transfer" /\ proc[q].pc = "s_transfer"
         => proc[p].t # proc[q].t

\* an onramp transaction was credited twice: both settlement runs have
\* finished and the second credit's hash is stored
C11_Witness ==
  \E t \in TxIds :
    /\ \A p \in Procs : proc[p].pc = "idle"
    /\ txs[t].flow = "onramp"
    /\ credits[t] = 2
    /\ txs[t].ver = "verified"
    /\ events[<<"stk", t, "0">>] = 1
    /\ events[<<"stk", t, "00">>] = 1

\* ------------------------------------------------------------------ C12
\* C12: whenever the transfer of the onramp credit settler succeeded, the
\* save that follows stores onchain.verificationStatus = verified, the
\* hash of the credit and the status succeeded, in whatever state the STK
\* handler invoked the settler.
C12_CreditedIsSucceeded ==
  [][\A p \in Procs :
       LET r == proc[p] IN
       r.pc = "s_save" /\ r.doc.ver = "verified" /\ proc'[p] # r =>
         /\ txs'[r.t].ver = "verified"
         /\ txs'[r.t].hash = r.doc.hash
         /\ txs'[r.t].hash # NoHash
         /\ txs'[r.t].status = "succeeded"]_vars

\* an onramp transaction that the provider was asked to collect, that
\* failed, and that a later success callback had credited: it is verified
\* and still failed
C12_Witness ==
  \E t \in TxIds :
    /\ \A p \in Procs : proc[p].pc = "idle"
    /\ txs[t].flow = "onramp"
    /\ subs[t] = 1
    /\ credits[t] = 1
    /\ txs[t].ver = "verified"
    /\ txs[t].hash # NoHash
    /\ txs[t].status = "failed"

\* ------------------------------------------------------------------ C13
\* C13: on an STK success callback for an onramp transaction the handler
\* applies mpesa_submitted -> mpesa_processing when the loaded status is
\* mpesa_submitted and no transition otherwise, stores the callback data
\* with that transition, and has sent the acknowledgement when the
\* settlement starts; the settlement works on the document as stored when
\* it starts, and every step of it runs after the acknowledgement.
C13_AckBeforeSettlement ==
  [][\A p \in Procs :
       LET r    == proc[p]
           code == parseResultCode(r.code)
           mine == r.kind = "webhook" /\ r.wkind = "stk" /\ code.isSuccess
                   /\ r.doc.flow = "onramp" /\ proc'[p] # r
       IN
       /\ mine /\ r.pc = "w_event" /\ events' # events =>
            /\ proc'[p].pc = "w_save"
            /\ proc'[p].doc.cb = code.raw
            /\ IF r.doc.status = "mpesa_submitted"
                 THEN /\ proc'[p].doc.status = "mpesa_processing"
                      /\ proc'[p].npush = 1
                 ELSE /\ proc'[p].doc.status = r.doc.status
                      /\ proc'[p].npush = 0
       /\ mine /\ r.pc = "w_save" =>
            /\ txs'[r.t].cb = code.raw
            /\ r.npush = 1 =>
                 /\ txs'[r.t].status = "mpesa_processing"
                 /\ txs'[r.t].history[Len(txs'[r.t].history)]
                      = <<"mpesa_submitted", "mpesa_processing", "webhook">>
            /\ r.npush = 0 => txs'[r.t].status = txs[r.t].status
            /\ proc'[p].kind = "settle"
            /\ proc'[p].pc = "s_load"
            /\ proc'[p].acked
       /\ r.kind = "settle" => r.acked
       /\ r.pc = "s_load" /\ proc'[p] # r /\ proc'[p].pc = "s_presave" =>
            /\ proc'[p].doc.status = txs[r.t].status
            /\ proc'[p].doc.history = txs[r.t].history
            /\ proc'[p].doc.hash = txs[r.t].hash
            /\ proc'[p].doc.cb = txs[r.t].cb]_vars

\* the success callback of an accepted STK push is stored and acknowledged,
\* and its settlement is about to transfer
C13_Witness ==
  \E p \in Procs :
    /\ proc[p].kind = "settle"
    /\ proc[p].pc = "s_transfer"
    /\ proc[p].acked
    /\ subs[proc[p].t] = 1
    /\ txs[proc[p].t].cb \in {"0", "00"}
    /\ txs[proc[p].t].status = "mpesa_processing"

\* ------------------------------------------------------------------ C14
\* C14: every request to a webhook endpoint (no shared secret is configured,
\* so every request passes the check) is answered with HTTP 200 and the
\* acknowledgement body, whatever happens internally: none is answered by
\* the application's error handler.
C14_AlwaysAcknowledged ==
  serverErrors = 0

\* a callback for a submitted transaction arrived while the database could
\* not be reached and was answered 500: the transaction is still processing
C14_Witness ==
  \E t \in TxIds :
    /\ serverErrors = 1
    /\ subs[t] = 1
    /\ txs[t].status = "mpesa_processing"
    /\ \A k \in EventKeys : events[k] = 0

\* ------------------------------------------------------------------ C15
\* the call is one the refund service acts on
Eligible(doc) == autoRefund /\ doc.flow \in FUNDED_FLOWS /\ doc.status = "failed"

\* C15: scheduleAutoRefund on a funded-flow transaction in failed, with
\* auto-refund enabled, goes on to the refund execution, never throws for
\* an error of the execution, and returns with the transaction saved either
\* as refunded with refund.status = completed and refund.txHash set (an RF_
\* reference when the refund is simulated: sandbox without a usable
\* treasury, where the execution cannot fail) or as failed with
\* refund.status = failed; it is never saved or returned in refund_pending.
C15_RefundOutcome ==
  [][\A p \in Procs :
       LET r == proc[p]
           simulated == ~(config.treasury /\ config.refundEnabled) /\ config.env = "sandbox"
           done == /\ proc'[p].doc.status = "refunded"
                   /\ proc'[p].doc.rstatus = "completed"
                   /\ proc'[p].doc.rtx # "none"
                   /\ simulated <=> proc'[p].doc.rtx = "RF_"
                   /\ refunds'[r.t] = refunds[r.t] + 1
           fail == /\ proc'[p].doc.status = "failed"
                   /\ proc'[p].doc.rstatus = "failed"
                   /\ proc'[p].doc.rtx = r.doc.rtx
                   /\ ~simulated
                   /\ refunds' = refunds
       IN
       /\ r.pc = "r_call" /\ Eligible(r.doc) /\ proc'[p] # r =>
            /\ proc'[p].pc = "r_exec"
            /\ txs' = txs
       /\ r.pc = "r_exec" /\ proc'[p] # r =>
            /\ proc'[p].pc = "r_save"
            /\ done \/ fail
       /\ r.pc = "r_save" /\ proc'[p] # r =>
            /\ r.doc.status \in {"refunded", "failed"}
            /\ txs'[r.t].status = r.doc.status
            /\ txs'[r.t].rstatus = r.doc.rstatus
            /\ txs'[r.t].rtx = r.doc.rtx
            /\ txs'[r.t].rstatus \in {"completed", "failed"}
            /\ r.ret = "caller" => proc'[p].pc = "r_returned" /\ proc'[p].doc = r.doc
       /\ \A t \in TxIds :
            txs[t].status # "refund_pending" => txs'[t].status # "refund_pending"
       /\ proc'[p].pc = "r_returned" /\ proc'[p] # r /\ r.doc.status # "refund_pending" =>
            proc'[p].doc.status # "refund_pending"]_vars

\* a failed offramp was refunded by simulation: sandbox, no treasury
C15_Witness ==
  \E p \in Procs :
    /\ proc[p].pc = "r_returned"
    /\ ~config.treasury
    /\ config.env = "sandbox"
    /\ txs[proc[p].t].flow = "offramp"
    /\ txs[proc[p].t].status = "refunded"
    /\ txs[proc[p].t].rstatus = "completed"
    /\ txs[proc[p].t].rtx = "RF_"
    /\ refunds[proc[p].t] = 1

\* ------------------------------------------------------------------ C16
\* C16: when auto-refund is disabled, when the flow is onramp, or when the
\* status is not failed, scheduleAutoRefund returns the transaction as it
\* was (status, refund fields, history), marks nothing modified and saves
\* nothing.
C16_RefundNoOp ==
  [][\A p \in Procs :
       LET r == proc[p] IN
       ( /\ r.pc = "r_call" /\ proc'[p] # r
         /\ ~autoRefund \/ r.doc.flow = "onramp" \/ r.doc.status # "failed" )
       => /\ proc'[p] = [r EXCEPT !.pc = "r_returned"]
          /\ proc'[p].doc = r.doc
          /\ proc'[p].dirty = {} /\ proc'[p].npush = 0
          /\ txs' = txs
          /\ refunds' = refunds]_vars

\* the call on a failed onramp transaction has returned, auto-refund being
\* enabled: the transaction is as it was
C16_Witness ==
  \E p \in Procs :
    /\ proc[p].pc = "r_returned"
    /\ autoRefund
    /\ proc[p].doc.flow = "onramp"
    /\ proc[p].doc.status = "failed"
    /\ proc[p].doc = txs[proc[p].t]
    /\ proc[p].doc.rstatus = "none"
    /\ proc[p].nh = 0 /\ proc[p].dirty = {}
    /\ refunds[proc[p].t] = 0

\* ------------------------------------------------------------------ C17
\* C17: a reconcile run changes the stored status only of transactions
\* that are in mpesa_processing, and only of its candidates; a candidate it
\* finds in mpesa_processing is moved to failed and handed to the refund
\* service; a run handles at most 100 candidates and its counts satisfy
\* refunded <= markedFailed <= scanned.
C17_ReconcileOnlyProcessing ==
  [][\A p \in Procs :
       LET r == proc[p] IN
       r.kind = "reconcile" =>
         /\ r.summary.refunded <= r.summary.markedFailed
         /\ r.summary.markedFailed <= r.summary.scanned
         /\ r.summary.scanned <= ReconcilePageSize
         /\ r.pc = "r_exec" =>
              /\ r.npush = 2
              /\ Path(r.doc, 2) = << <<"mpesa_processing", "failed">>,
                                     <<"failed", "refund_pending">> >>
         /\ proc'[p] # r =>
              \A t \in TxIds :
                txs'[t].status # txs[t].status =>
                  /\ t = r.t
                  /\ txs[t].status = "mpesa_processing"
                  /\ txs'[t].status \in {"failed", "refunded"}]_vars

\* a payout that a success callback completed while a reconcile run held
\* its copy: the run has failed and refunded the succeeded transaction
C17_Witness ==
  \E t \in TxIds :
    /\ \A p \in Procs : proc[p].pc = "idle"
    /\ subs[t] = 1
    /\ refunds[t] = 1
    /\ txs[t].status = "refunded"
    /\ \E i \in 1..Len(txs[t].history) :
         txs[t].history[i] = <<"mpesa_processing", "succeeded", "webhook">>
    /\ \E i \in 1..Len(txs[t].history) :
         txs[t].history[i] = <<"mpesa_processing", "failed", "reconcile">>


\* C18 (SpecLimits): no transaction is submitted to the provider by an
\* initiate handler unless its quote.amountKes is at most maxTxnKes and the
\* user's total quote.amountKes over today's non-failed transactions,
\* including this one, is at most maxDailyKes, whether the transaction was
\* bound from a quoteId or created by the initiate call.
C18_SubmittedWithinLimits ==
  [][\A q \in QuoteIds :
       (q \in sent' /\ q \notin sent) =>
         /\ ledger'[q].amountKes <= maxTxnKes
         /\ SumKes(ledger, TodaysNonFailed(ledger, ledger'[q].user, now) \ {q})
              + ledger'[q].amountKes <= maxDailyKes]_vars

\* an initiate call without a quoteId has created and submitted a transaction
\* above the per-transaction limit
C18_Witness ==
  /\ call.op = "initiate"
  /\ call.quoteId = 0
  /\ call.out = "submitted"
  /\ call.q \in sent
  /\ ledger[call.q].amountKes > maxTxnKes

\* a step of an initiate handler
InitiateStep ==
  /\ call'.op = "initiate"
  /\ now' = now
  /\ <<call, ledger, sent>>' # <<call, ledger, sent>>

C20_PinAndSignature ==
  [][(/\ InitiateStep
      /\ call'.flow \in FUNDED_FLOWS
      /\ \/ sent' # sent
         \/ \E q \in QuoteIds : ledger[q] # NoQuote /\ ledger'[q].status # ledger[q].status)
     => /\ pinHash(call'.user) # NoPin
        /\ verifyPin(call'.pin, pinHash(call'.user))
        /\ call'.signedTx = call'.q
        /\ call'.signer = call'.user]_vars

\* an offramp payout was submitted on the user's PIN and signature, and then
\* an onramp call with neither was submitted
C20_Witness ==
  /\ call.op = "initiate"
  /\ call.flow = "onramp"
  /\ call.pin = 0
  /\ call.signer = 0
  /\ call.out = "submitted"
  /\ call.q \in sent
  /\ \E q \in sent : /\ ledger[q].flow = "offramp"
                     /\ ledger[q].status = "mpesa_processing"

\* the scope claim of the token names mpesa
ScopeContainsMpesa(token) ==
  \E i \in 1..Len(token.scope.items) : trimLower(token.scope.items[i]) = "mpesa"

\* C21 (SpecAuth): requireBackendAuth passes a request on only if the bearer
\* token is a correctly signed, unexpired HS256 token whose scope contains
\* mpesa; a token whose scope does not contain mpesa is answered with 401.
C21_OnlyMpesaScope ==
  /\ result = PassedOn =>
       /\ args.bearer
       /\ args.token.parts = 3 /\ args.token.decodes
       /\ args.token.alg = "HS256"
       /\ args.token.signedWith = "secret"
       /\ (args.token.exp = 0 \/ args.token.exp >= NowSec)
       /\ ScopeContainsMpesa(args.token)
  /\ (/\ result # Pending
      /\ args.secret /\ args.bearer
      /\ ~ScopeContainsMpesa(args.token))
     => result.kind = "answer" /\ result.status = 401

\* a correctly signed, unexpired token without a scope claim was passed on
C21_Witness ==
  /\ args.fn = "requireBackendAuth"
  /\ args.token.scope.kind = "absent"
  /\ args.token.exp = NowSec + 1
  /\ result = PassedOn

\* C22 (SpecOAuth): at most one request to the token endpoint is in flight
\* at any time, concurrent calls that find the cache empty or expired making
\* one request, and a read of an unexpired cached token issues no request.
C22_OneRefreshInFlight ==
  [][/\ Cardinality({c \in Callers : oauth'.pc[c] = "fetch"}) <= 1
     /\ (/\ oauth.cachedToken # "null"
         /\ oauth.cachedExpiresAt > now
         /\ \E c \in Callers : GetAccessToken(c, FALSE))
        => oauth'.requests = oauth.requests]_vars

\* two calls found the cache empty and both have a request in flight
C22_Witness ==
  /\ oauth.cachedToken = "null"
  /\ InFlight = 2
  /\ oauth.requests = 2

\* the table lists the change from -> to
Listed(from, to) ==
  from \in STATUSES /\ to \in STATUSES /\ to \in ALLOWED_TRANSITIONS[from]

\* C23 (SpecTransition): assertTransition on a legal change sets the status
\* to the target and appends exactly one history entry; on a same-state call
\* it changes neither status nor history; on an illegal change it throws and
\* leaves status and history unchanged.
C23_AssertTransitionEffect ==
  result # Pending =>
    LET from == args.doc.status
        to == args.to
    IN  IF from \in STATUSES /\ from = to
          THEN result.kind = "returned" /\ result.doc = args.doc
        ELSE IF Listed(from, to)
          THEN /\ result.kind = "returned"
               /\ result.doc.status = to
               /\ Len(result.doc.history) = Len(args.doc.history) + 1
               /\ SubSeq(result.doc.history, 1, Len(args.doc.history)) = args.doc.history
               /\ result.doc.history[Len(result.doc.history)] = <<from, to, args.source>>
        ELSE result.kind = "thrown" /\ result.doc = args.doc

\* a legal change was applied to a transaction with one history entry
C23_Witness ==
  /\ args.fn = "assertTransition"
  /\ args.doc.status = "quoted"
  /\ args.to = "mpesa_submitted"
  /\ Len(args.doc.history) = 1
  /\ result # Pending
  /\ result.kind = "returned"
  /\ result.doc.status = "mpesa_submitted"
  /\ Len(result.doc.history) = 2

\* the history is a chain from created -> quoted to the status
Chained(doc) ==
  /\ Len(doc.history) >= 1
  /\ doc.history[1][1] = "created" /\ doc.history[1][2] = "quoted"
  /\ \A i \in 1..Len(doc.history) :
       /\ doc.history[i][1] # doc.history[i][2]
       /\ doc.history[i][2] \in ALLOWED_TRANSITIONS[doc.history[i][1]]
  /\ \A i \in 2..Len(doc.history) : doc.history[i][1] = doc.history[i - 1][2]
  /\ doc.history[Len(doc.history)][2] = doc.status

\* C24: in every stored transaction, under any interleaving of the handlers
\* that write to it, the history only grows and is a chain of legal
\* transitions from created -> quoted whose last entry ends at the stored
\* status.
C24_HistoryChain ==
  [][\A t \in TxIds :
       /\ txs'[t] # NoDoc => Chained(txs'[t])
       /\ txs[t] # NoDoc =>
            /\ Len(txs'[t].history) >= Len(txs[t].history)
            /\ SubSeq(txs'[t].history, 1, Len(txs[t].history)) = txs[t].history]_vars

\* a stored history with two entries leaving mpesa_processing
C24_Witness ==
  \E t \in TxIds :
    /\ txs[t] # NoDoc
    /\ \A p \in Procs : proc[p].pc = "idle"
    /\ \E i, j \in 1..Len(txs[t].history) :
         /\ i < j
         /\ txs[t].history[i][1] = "mpesa_processing"
         /\ txs[t].history[j][1] = "mpesa_processing"

\* C25 (SpecFunding): for a quote with positive totalDebitKes and
\* rateKesPerUsd and decimals in [0, 18], calculateExpectedFundingFromQuote
\* returns the smallest integer u with u * rateKesPerUsd_scaled >=
\* totalDebitKes_scaled * 10^decimals, both inputs scaled by 10^6, and fails
\* when that value is not positive.
C25_ExpectedUnitsCeiling ==
  (result # Pending /\ toScaledInt(args.rateKesPerUsd) > 0) =>
    LET n == toScaledInt(args.totalDebitKes) * Pow10(args.decimals)
        r == toScaledInt(args.rateKesPerUsd)
    IN  IF n <= 0 THEN result.kind = "thrown"
        ELSE /\ result.kind = "returned"
             /\ result.expectedUnits * r >= n
             /\ (result.expectedUnits - 1) * r < n

\* with decimals 0 the function has returned more units than the ceiling
C25_Witness ==
  /\ args.fn = "calculateExpectedFundingFromQuote"
  /\ args.decimals = 0
  /\ args.totalDebitKes = 20000 /\ args.rateKesPerUsd = 1550
  /\ result # Pending
  /\ result.kind = "returned"
  /\ (result.expectedUnits - 1) * toScaledInt(args.rateKesPerUsd)
       >= toScaledInt(args.totalDebitKes)

\* the Transfer logs of the token from the expected sender to the treasury
Matching(a) ==
  {i \in 1..Len(a.logs) :
     /\ a.logs[i].address = "usdc"
     /\ a.logs[i].name = "Transfer"
     /\ a.logs[i].from = "sender" /\ a.logs[i].to = "treasury"}

\* C26 (SpecVerify): whenever verifyUsdcFunding succeeds, the RPC chain id
\* equals the configured chain id and the request's chain id when one is
\* given, the receipt exists with status 1 and at least
\* minFundingConfirmations confirmations, the values of the matching logs
\* sum to at least expectedMinAmountUnits, fundedAmountUnits is that sum and
\* logIndex is the lowest log index among the matching logs.
C26_FundingVerified ==
  (result # Pending /\ result.kind = "returned") =>
    /\ args.configuredChainId # 0 => args.networkChainId = args.configuredChainId
    /\ args.providedChainId # 0 => args.networkChainId = args.providedChainId
    /\ args.found /\ args.status = 1
    /\ args.confirmations >= args.minFundingConfirmations
    /\ SumValues(args.logs, Matching(args)) >= args.expectedMinAmountUnits
    /\ result.fundedAmountUnits = SumValues(args.logs, Matching(args))
    /\ Matching(args) # {}
    /\ \A i \in Matching(args) : result.logIndex <= logIndex(args, i)
    /\ \E i \in Matching(args) : result.logIndex = logIndex(args, i)

\* a funding was verified whose first matching log carries no value: the
\* returned logIndex is that of the second
C26_Witness ==
  /\ args.fn = "verifyUsdcFunding"
  /\ args.rising
  /\ Len(args.logs) = 2
  /\ args.logs[1] = LogOf("match", 0)
  /\ args.logs[2] = LogOf("match", 10)
  /\ result # Pending
  /\ result.kind = "returned"
  /\ result.logIndex = 1

\* a quote request buildQuote accepts
ValidQuoteRequest == args.amount > 0 /\ args.currency \in {"KES", "USD"}

\* the basis points of the fee table
TableBps(flowType) ==
  CASE flowType = "onramp" -> 130
    [] flowType = "offramp" -> 180
    [] flowType \in {"paybill", "buygoods"} -> 120
    [] OTHER -> 150

\* c thousandths is x / 10000 thousandths rounded to 2 decimals
RoundedTo2(c, x) ==
  /\ c % 10 = 0
  /\ 2 * x - 100000 < 2 * 10000 * c
  /\ 2 * 10000 * c <= 2 * x + 100000

\* C27 (SpecQuote): for every valid quote request buildQuote yields
\* feeAmountKes = max(5, amountKes * bps / 10000) rounded to 2 decimals with
\* the bps of the table, networkFeeKes = 0 for onramp and 3 otherwise, and
\* totalDebitKes = amountKes + feeAmountKes + networkFeeKes, all non-negative.
C27_QuoteFees ==
  (result # Pending /\ ValidQuoteRequest) =>
    /\ result.kind = "returned"
    /\ RoundedTo2(result.feeAmountKes,
                  Max(5000 * 10000, result.amountKes * TableBps(args.flowType)))
    /\ result.networkFeeKes = IF args.flowType = "onramp" THEN 0 ELSE 3000
    /\ result.totalDebitKes
         = result.amountKes + result.feeAmountKes + result.networkFeeKes
    /\ result.amountKes >= 0 /\ result.feeAmountKes >= 0
    /\ result.networkFeeKes >= 0 /\ result.totalDebitKes >= 0

\* a quote for 100.005 KES whose total is not the sum of its parts
C27_Witness ==
  /\ args.fn = "buildQuote"
  /\ args.currency = "KES" /\ args.amount = 100005 /\ args.flowType = "onramp"
  /\ result # Pending
  /\ result.kind = "returned"
  /\ result.amountKes = 100005
  /\ result.feeAmountKes = 5000
  /\ result.totalDebitKes = 105010

NotBlank(c) == c # " "

Stripped(pin) == SelectSeq(pin, NotBlank)

\* C29 (SpecPin): assertPinFormat accepts a PIN exactly when, after
\* stripping white space, it consists of exactly 6 digits, and then returns
\* those digits; an input with a character that is neither a digit nor white
\* space, or with another number of digits, is rejected.
C29_PinFormat ==
  result # Pending =>
    IF /\ Len(Stripped(args.pin)) = 6
       /\ \A i \in 1..6 : isDigit(Stripped(args.pin)[i])
      THEN result.kind = "returned" /\ result.pin = Stripped(args.pin)
      ELSE result.kind = "thrown"

\* a pin of six digits and a letter was accepted
C29_Witness ==
  /\ args.fn = "assertPinFormat"
  /\ args.pin = <<"1", "2", "a", "1", "2", "1", "2">>
  /\ result # Pending
  /\ result.kind = "returned"
  /\ result.pin = <<"1", "2", "1", "2", "1", "2">>

\* C30 (SpecKey): requireIdempotencyKey passes a request on, with
\* req.idempotencyKey the trimmed header value, exactly when the header is
\* present and its trimmed value is 8 to 128 characters long and made only
\* of letters, digits and _ - : . ; otherwise it answers 400 and the handler
\* is not invoked.
C30_IdempotencyKeyFormat ==
  result # Pending =>
    IF /\ args.header.present
       /\ args.header.len \in 8..128
       /\ \/ args.header.char \in {"x", "Z"}
          \/ args.header.char = "5"
          \/ args.header.char \in {"_", "-", ":", "."}
      THEN /\ result.kind = "next"
           /\ result.idempotencyKey
                = [len |-> args.header.len, char |-> args.header.char]
      ELSE result.kind = "answer" /\ result.status = 400

\* a key of 128 characters with white space around it was passed on
C30_Witness ==
  /\ args.fn = "requireIdempotencyKey"
  /\ args.header.present
  /\ args.header.len = 128 /\ args.header.lead = 1
  /\ result # Pending
  /\ result.kind = "next"
  /\ result.idempotencyKey.len = 128

\* C31: when the onramp credit settlement fails (no valid recipient or
\* amount, or an error of the transfer or of its receipt), the save that
\* follows stores onchain.verificationStatus = failed with the error and
\* leaves the stored status and history as they were; and a settlement run
\* that loads a transaction whose credit failed goes on to attempt the
\* credit instead of returning.
C31_CreditFailureRetriable ==
  [][\A p \in Procs :
       LET r == proc[p]
           t == r.t
       IN
       /\ (r.pc = "s_save" /\ r.doc.ver = "failed" /\ proc'[p] # r) =>
            /\ txs'[t].ver = "failed"
            /\ txs'[t].verErr
            /\ txs'[t].status = txs[t].status
            /\ txs'[t].history = txs[t].history
       /\ (r.pc = "s_load" /\ txs[t].ver = "failed" /\ proc'[p] # r) =>
            proc'[p].pc \in {"s_presave", "s_save"}]_vars

\* a credit failed, the transaction stayed in mpesa_processing, and the
\* settlement started by a second success callback is attempting the credit
\* again
C31_Witness ==
  \E p \in Procs :
    LET r == proc[p] IN
    /\ r.kind = "settle"
    /\ r.pc = "s_transfer"
    /\ r.nh = 0
    /\ txs[r.t].status = "mpesa_processing"
    /\ events[<<"stk", r.t, "0">>] = 1
    /\ events[<<"stk", r.t, "00">>] = 1
    /\ credits[r.t] = 0

\* C32 (SpecDaraja): a darajaRequest call sends the provider request at most
\* twice; a second request is sent only after a first response with status
\* 401, one clearAccessToken and a token obtained from the token endpoint
\* after it; and a 401 on the second request ends the call, which returns
\* {ok: false, status: 401}.
C32_RetryOnce ==
  \A c \in Callers :
    LET f == args[c] IN
    /\ f.posts <= 2
    /\ (f.posts = 2 \/ (f.posts = 1 /\ f.pc = "post" /\ ~f.retry)) =>
         /\ f.first = 401
         /\ f.clears = 1
         /\ f.src = "fetch"
    /\ (f.posts = 2 /\ f.last = 401) =>
         /\ f.pc = "done"
         /\ result[c] = Returned(FALSE, 401)

\* a call answered 401 twice, while the other caller read the refreshed
\* token from the cache
C32_Witness ==
  \E c, d \in Callers :
    /\ c # d
    /\ args[c].posts = 2
    /\ args[c].last = 401
    /\ result[c] = Returned(FALSE, 401)
    /\ args[d].src = "cache"

\* C33: for every transaction at most one refund transfer (on-chain or
\* simulated) is ever executed, under any interleaving of the callers of
\* scheduleAutoRefund.
C33_OneRefundPerTransaction ==
  \A t \in TxIds : refunds[t] <= 1

\* a transaction was refunded by one transfer and stored as refunded
C33_Witness ==
  \E t \in TxIds :
    /\ refunds[t] = 1
    /\ txs[t].status = "refunded"
    /\ txs[t].rstatus = "completed"

\* a success result callback of transaction t was received (its event row
\* is stored) and the handler that received it has answered
AckedSuccess(t) ==
  \E w \in {"b2c_result", "b2b_result"}, c \in {"0", "00"} :
    /\ events[eventKey(w, t, c)] > 0
    /\ ~\E q \in Procs :
          /\ proc[q].kind = "webhook"
          /\ proc[q].t = t
          /\ proc[q].wkind = w
          /\ proc[q].code = c
          /\ proc[q].inserted

\* C34: no payout is both paid out and refunded: once a success result
\* callback of a submitted funded-flow transaction has been received and
\* acknowledged, no refund transfer is executed for that transaction.
C34_NoRefundAfterSuccess ==
  [][\A t \in TxIds :
       (/\ txs[t].flow \in FUNDED_FLOWS
        /\ subs[t] > 0
        /\ AckedSuccess(t))
       => refunds'[t] = refunds[t]]_vars

\* a submitted offramp whose success callback was acknowledged and stored,
\* and no refund was made
C34_Witness ==
  \E t \in TxIds :
    /\ txs[t].flow = "offramp"
    /\ subs[t] = 1
    /\ AckedSuccess(t)
    /\ txs[t].status = "succeeded"
    /\ refunds[t] = 0
    /\ \A p \in Procs : proc[p].pc = "idle"

\* C35: in every stored transaction, status = refunded holds exactly when
\* refund.status = completed with a refund.txHash, and refund.status =
\* pending is stored only together with status = refund_pending.
C35_RefundFieldsAgree ==
  \A t \in TxIds :
    Exists(t) =>
      /\ txs[t].status = "refunded" <=> (txs[t].rstatus = "completed" /\ txs[t].rtx # "none")
      /\ txs[t].rstatus = "pending" => txs[t].status = "refund_pending"

\* a rejected payout was refunded and stored with the hash of the transfer,
\* after a first refund attempt that failed
C35_Witness ==
  \E t \in TxIds :
    /\ txs[t].status = "refunded"
    /\ txs[t].rstatus = "completed"
    /\ txs[t].rtx = "0x"
    /\ refunds[t] = 1
    /\ \E i \in 1..Len(txs[t].history) : txs[t].history[i] = <<"refund_pending", "failed", "refund_service">>

\* C36 (SpecRetry): a funded-flow transaction stored in
\* awaiting_onchain_funding after a failed funding verification is not
\* stuck: with initiate calls for its quote made again and again, with old
\* and new keys and with funding that verifies, and with reconcile runs, it
\* leaves awaiting_onchain_funding.
C36_FundingRetryMovesOn ==
  (txs[1].status = "awaiting_onchain_funding")
    ~> (txs[1].status # "awaiting_onchain_funding")

\* the transaction is stored in awaiting_onchain_funding with the failed
\* verification, and a call with another key has passed the lookup
C36_Witness ==
  /\ txs[1].status = "awaiting_onchain_funding"
  /\ txs[1].ver = "failed"
  /\ txs[1].key = 1
  /\ \E p \in Procs : proc[p].pc = "i_fetch" /\ proc[p].key = 2 /\ proc[p].quote = 1

\* C37: every stored event row corresponds to a callback whose effect was
\* applied: a webhook handler that has inserted the event key of a callback
\* of a submitted transaction goes on to save the transaction, and that
\* save stores the callback's data and the status the handler asked for.
C37_RecordedMeansApplied ==
  [][\A p \in Procs :
       LET r == proc[p] IN
       /\ (r.pc = "w_event" /\ r.posted /\ events' # events) => proc'[p].pc = "w_save"
       /\ (r.pc = "w_save" /\ proc'[p] # r) =>
            /\ txs'[r.t].cb = r.doc.cb
            /\ "status" \in r.dirty => txs'[r.t].status = r.doc.status]_vars

\* the success callback of a submitted payout was recorded and applied
C37_Witness ==
  \E t \in TxIds :
    /\ events[eventKey("b2c_result", t, "0")] = 1
    /\ subs[t] = 1
    /\ txs[t].status = "succeeded"
    /\ txs[t].cb = "0"
    /\ \A p \in Procs : proc[p].pc = "idle"

\* C38: the onramp credit settler transfers funds only for an onramp
\* transaction whose STK push was submitted: when a credit transfer is made
\* the stored status is mpesa_submitted or mpesa_processing.
C38_CreditOnlySubmitted ==
  [][\A t \in TxIds :
       credits'[t] > credits[t] =>
         /\ txs[t].flow = "onramp"
         /\ subs[t] > 0
         /\ txs[t].status \in {"mpesa_submitted", "mpesa_processing"}]_vars

\* the credit of a submitted onramp transaction stored in mpesa_processing
\* has been transferred
C38_Witness ==
  \E p \in Procs :
    LET r == proc[p] IN
    /\ r.pc = "s_save"
    /\ r.doc.ver = "verified"
    /\ credits[r.t] = 1
    /\ subs[r.t] = 1
    /\ txs[r.t].status = "mpesa_processing"

\* C39 (SpecRoute): the webhook shared-secret check applies only to the five
\* webhook endpoints: with a webhook secret configured, a request to another
\* endpoint of /api/mpesa that carries the valid credential of that
\* endpoint is served, whether or not it carries the webhook secret.
C39_SecretOnlyForWebhooks ==
  (/\ result # Pending
   /\ args.webhookSecret # ""
   /\ args.path \in UserPaths \cup {"/internal/reconcile"}
   /\ args.authorized)
  => result = Answer(200, "ok")

\* with a secret configured, a callback with the wrong secret was refused
\* by the webhook router
C39_Witness ==
  /\ args.webhookSecret = "s3cret"
  /\ args.path = "/webhooks/b2c/result"
  /\ args.secret = "wrong"
  /\ result = Answer(401, "Unauthorized")

\* C40: an idempotency key never blocks a payout that was not attempted: a
\* transaction given in a 200 answer to a call with an Idempotency-Key has
\* been submitted to the provider, or an initiate call is still working on
\* it; a call that failed before any submission leaves nothing that a retry
\* with the same key is answered with.
C40_KeyNeverBlocksUnattempted ==
  [][\A f \in FLOW_TYPES, k \in Keys :
       \A t \in answered'[<<f, k>>] \ answered[<<f, k>>] :
         \/ subs[t] > 0
         \/ \E q \in Procs : proc[q].kind = "initiate" /\ proc[q].t = t]_vars

\* an initiate call has failed in the funding verification, before any
\* submission, and has left its key on the stored transaction
C40_Witness ==
  \E t \in TxIds :
    /\ txs[t].status = "awaiting_onchain_funding"
    /\ txs[t].ver = "failed"
    /\ txs[t].key = 1
    /\ subs[t] = 0
    /\ answered[<<txs[t].flow, 1>>] = {}
    /\ \A p \in Procs : proc[p].pc = "idle"
====
